---- MODULE Spec2Model ----
(***************************************************************************)
(* Model of the multi-project stackdriver stats exporter                   *)
(* (exporter.go, project_data.go and the point conversion file).           *)
(*                                                                         *)
(* Spec        the exporter: concurrent ExportView callers, per-project    *)
(*             bundlers, bundle handlers, detached uploads and Close.      *)
(* UploadSpec  projectData.uploadRowData run on an arbitrary bundle, as    *)
(*             the upload tests do through newMockUploader.                *)
(* UploadFairSpec  the same under a scheduler that lets the upload run.    *)
(* CloseSpec   the exporter of one caller that calls ExportView and then   *)
(*             Close, under a scheduler that lets every goroutine run.     *)
(* ConvSpec    the conversion functions called on any arguments.           *)
(***************************************************************************)
EXTENDS Integers, Sequences, FiniteSets, TLC

\* ------------------------------------------------------------------ bounds
\* rows ingested by ExportView over one run of Spec
MaxRowData == 2
\* rows of one view.Data snapshot
MaxRowsPerView == 2
\* MaxTimeSeriesPerUpload during a run of Spec
SeriesLimit == 1
\* largest MaxTimeSeriesPerUpload tried by UploadSpec
MaxSeriesLimit == 2
\* Options.BundleCountThreshold used by Spec
BundleCountThreshold == 2
\* longest bundle handed to uploadRowData by UploadSpec
MaxBundleLen == 4

\* ------------------------------------------------------- data of the tests
project1 == "project-1"
project2 == "project-2"

\* outcome of a callback that is not a value
NotApplicable == "RowDataNotApplicableError"
invalidDataError == "invalid data"

\* A view.View: Measure is the dynamic type of v.Measure ("nil" for none),
\* Aggregation is v.Aggregation.Type and Buckets v.Aggregation.Buckets
view1 == [Name |-> "metric_1", Measure |-> "Int64Measure", Aggregation |-> "AggTypeSum",
          Buckets |-> <<>>]
view2 == [Name |-> "metric_2", Measure |-> "Int64Measure", Aggregation |-> "AggTypeSum",
          Buckets |-> <<>>]
Views == {view1, view2}

\* results of expBundler.Add
ErrOversizedItem == "ErrOversizedItem"
ErrOverflow == "ErrOverflow"

\* A float64 is a whole number of fractions, FloatUnit of them to one
FloatUnit == 2

\* the float64 n.0
Float(n) == n * FloatUnit

\* int64(f) of a float64 f: the fraction is cut off, towards zero
Int64Of(f) == IF f >= 0 THEN f \div FloatUnit ELSE 0 - ((0 - f) \div FloatUnit)

\* A view.Row.  Data is the dynamic type of Row.Data, Value its number (an
\* int64 for CountData, a float64 for SumData and LastValueData).  The
\* user callbacks GetProjectID and MakeResource are functions of the row
\* (the tests switch on rd.Row), and so is the bundler's answer to Add: proj,
\* res and add are what they answer for the row.
Row(data, value, proj, res, add) ==
    [Data |-> data, Value |-> value, proj |-> proj, res |-> res, add |-> add]

view1row1  == Row("SumData", Float(1), project1, "ok", "nil")
view1row2  == Row("SumData", Float(2), project1, "ok", "nil")
view1row3  == Row("SumData", Float(3), project1, "ok", "nil")
view2row1  == Row("SumData", Float(4), project2, "ok", "nil")
invalidRow == Row("nil", 0, project1, "ok", "nil")
noResRow   == Row("CountData", 9, project1, invalidDataError, "nil")
naRow      == Row("SumData", Float(5), NotApplicable, "ok", "nil")
errRow     == Row("SumData", Float(6), invalidDataError, "ok", "nil")
bigRow     == Row("CountData", 7, project1, "ok", ErrOversizedItem)
fullRow    == Row("SumData", Float(8), project2, "ok", ErrOverflow)

\* rows a snapshot of view v may hold when offered to ExportView
RowsOf(v) ==
    IF v = view1 THEN {view1row1, noResRow, naRow, bigRow} ELSE {view2row1, invalidRow, errRow, fullRow}

\* rows offered to uploadRowData directly: classification plays no part
UploadRows == {view1row1, view1row2, view1row3, invalidRow, noResRow}

\* goroutines calling ExportView: c2 stands for a call that begins while
\* another is in progress
Callers == {"c1", "c2"}

VARIABLES
    opts,                   \* StatsExporter.opts: the Options given to NewStatsExporter
    call,                   \* the conversion function called last, its arguments and result
    MaxTimeSeriesPerUpload, \* the package variable
    projDataMap,            \* StatsExporter.projDataMap: project ID -> index into pds
    pds,                    \* the projectData objects, in order of creation
    mu,                     \* StatsExporter.mu: "free" or its holder
    clientClosed,           \* metricClient.Close was called
    callers,                \* each ExportView caller's position
    closer,                 \* Close's position
    uploads,                \* invocations of uploadRowData, in order of creation, each
                            \* with the CreateTimeSeries calls and onError calls it made
    errRds,                 \* onError calls made by exportRowData, in order
    nextRd,                 \* RowData objects each caller has allocated so far
    rowDatas                \* the RowData objects ExportView has built

vars == <<opts, call, MaxTimeSeriesPerUpload, projDataMap, pds, mu, clientClosed, callers,
          closer, uploads, errRds, nextRd, rowDatas>>

\* Options: GetProjectID is "nil" when the field is not set; DefaultLabels is
\* a map from label keys to values, UnexportedLabels a list of label keys
Options(getProjectID, defaultLabels, unexportedLabels) ==
    [GetProjectID |-> getProjectID, DefaultLabels |-> defaultLabels,
     UnexportedLabels |-> unexportedLabels]

\* no conversion function has been called
NoCall == [fn |-> "none"]

\* ----------------------------------------------------------------- helpers
Range(s) == {s[i] : i \in 1..Len(s)}

SeqsUpTo(S, n) == UNION {[1..k -> S] : k \in 1..n}

\* --------------------------------------------------------- point conversion
\* a sum or a last value is given as an integer whatever the measure
newTypedValueInt(vd, r) ==
    CASE r.Data = "CountData" -> [kind |-> "Int64Value", v |-> r.Value]
      [] r.Data \in {"SumData", "LastValueData"} ->
            [kind |-> "Int64Value", v |-> Int64Of(r.Value)]
      [] r.Data = "DistributionData" ->
            [kind |-> "DistributionValue",
             v |-> [Count |-> r.Count, Mean |-> r.Mean,
                    SumOfSquaredDeviation |-> r.SumOfSquaredDev,
                    Bounds |-> vd.Buckets, BucketCounts |-> r.CountPerBucket]]
      [] OTHER -> [kind |-> "nil", v |-> 0]

\* newTypedValue(vd, r): the kind of the TypedValue ("nil" for a nil
\* *TypedValue) and what it holds
newTypedValue(vd, r) ==
    CASE r.Data = "CountData" -> [kind |-> "Int64Value", v |-> r.Value]
      [] r.Data = "SumData" /\ vd.Measure = "Int64Measure" ->
            [kind |-> "Int64Value", v |-> Int64Of(r.Value)]
      [] r.Data = "SumData" /\ vd.Measure = "Float64Measure" ->
            [kind |-> "DoubleValue", v |-> r.Value]
      [] r.Data = "DistributionData" ->
            [kind |-> "DistributionValue",
             v |-> [Count |-> r.Count, Mean |-> r.Mean,
                    SumOfSquaredDeviation |-> r.SumOfSquaredDev,
                    Bounds |-> vd.Buckets, BucketCounts |-> r.CountPerBucket]]
      [] r.Data = "LastValueData" /\ vd.Measure = "Int64Measure" ->
            [kind |-> "Int64Value", v |-> Int64Of(r.Value)]
      [] r.Data = "LastValueData" /\ vd.Measure = "Float64Measure" ->
            [kind |-> "DoubleValue", v |-> r.Value]
      [] OTHER -> [kind |-> "nil", v |-> 0]

\* A time.Time is a number of ticks, TicksPerSecond of them to the second
\* (Go: nanoseconds).
TicksPerSecond == 2

\* &timestamppb.Timestamp{Seconds: t.Unix(), Nanos: int32(t.Nanosecond())}
Timestamp(t) ==
    [nil |-> FALSE, Seconds |-> t \div TicksPerSecond, Nanos |-> t % TicksPerSecond]

\* a TimeInterval field left unset
NilTimestamp == [nil |-> TRUE, Seconds |-> 0, Nanos |-> 0]

newCumulativePoint(v, row, start, end) ==
    [StartTime |-> Timestamp(start), EndTime |-> Timestamp(end),
     Value |-> newTypedValue(v, row)]

newGaugePoint(v, row, end) ==
    [StartTime |-> NilTimestamp, EndTime |-> Timestamp(end), Value |-> newTypedValue(v, row)]

\* the kind of point is chosen by the type of the row's data
newPointByData(v, row, start, end) ==
    IF row.Data = "LastValueData"
    THEN newGaugePoint(v, row, end)
    ELSE newCumulativePoint(v, row, start, end)

\* the type of data an aggregation type produces
DataOfAggregation(a) ==
    CASE a = "AggTypeCount" -> "CountData"
      [] a = "AggTypeSum" -> "SumData"
      [] a = "AggTypeDistribution" -> "DistributionData"
      [] a = "AggTypeLastValue" -> "LastValueData"
      [] OTHER -> "nil"

\* a row whose data is not of the type the view's aggregation produces gets
\* a point without value
newPointStrict(v, row, start, end) ==
    LET pt == IF v.Aggregation = "AggTypeLastValue"
              THEN newGaugePoint(v, row, end)
              ELSE newCumulativePoint(v, row, start, end)
    IN  IF row.Data = DataOfAggregation(v.Aggregation)
        THEN pt
        ELSE [pt EXCEPT !.Value = [kind |-> "nil", v |-> 0]]

newPoint(v, row, start, end) ==
    IF v.Aggregation = "AggTypeLastValue"
    THEN newGaugePoint(v, row, end)
    ELSE newCumulativePoint(v, row, start, end)

\* ---------------------------------------------------------- user callbacks
\* Options.GetProjectID as the tests write it: decided by the row
optsGetProjectID(rd) ==
    IF rd.Row.proj \in {project1, project2}
    THEN [projID |-> rd.Row.proj, err |-> "nil"]
    ELSE [projID |-> "", err |-> rd.Row.proj]

\* the default accepts every row, for the project ""
defaultGetProjectIDAccept(rd) == [projID |-> "", err |-> "nil"]

defaultGetProjectID(rd) == [projID |-> "", err |-> NotApplicable]

\* e.getProjectID as NewStatsExporter sets it
getProjectID(rd) ==
    IF opts.GetProjectID # "nil" THEN optsGetProjectID(rd) ELSE defaultGetProjectID(rd)

\* Options.MakeResource as the tests write it: decided by the row
makeResource(rd) ==
    IF rd.Row.res = "ok"
    THEN [resource |-> "global", err |-> "nil"]
    ELSE [resource |-> "nil", err |-> rd.Row.res]

\* one onError call: the formatted error and the rows passed with it
ErrRd(msg, view, cause, proj, rds) ==
    [msg |-> msg, view |-> view, cause |-> cause, proj |-> proj, rds |-> rds]

\* ------------------------------------------------------------ project_data
\* makeReq's loop with one of its decisions changed (how):
\*   "no break"        the limit is never checked
\*   "late break"      the limit is checked before the row is appended
\*   "stop"            a row without a point value ends the loop
\*   "keep"            a row whose resource failed is reported and kept
RECURSIVE makeReqLoopChanged(_, _, _, _, _, _)
makeReqLoopChanged(how, rds, k, timeSeries, reqRds, errs) ==
    IF k > Len(rds)
    THEN [last |-> Len(rds), timeSeries |-> timeSeries, reqRds |-> reqRds, errs |-> errs]
    ELSE LET rd == rds[k]
             pt == newPoint(rd.View, rd.Row, rd.Start, rd.End)
             res == makeResource(rd)
             ts == [Type |-> rd.View.Name, Resource |-> res.resource, Point |-> pt]
             inconsistent == Append(errs, ErrRd("inconsistent data found in view", rd.View.Name, "nil", "", <<rd>>))
             noResource == Append(errs, ErrRd("failed to construct resource of view", rd.View.Name, res.err, "", <<rd>>))
         IN  IF pt.Value.kind = "nil"
             THEN IF how = "stop"
                  THEN [last |-> k, timeSeries |-> timeSeries, reqRds |-> reqRds, errs |-> inconsistent]
                  ELSE makeReqLoopChanged(how, rds, k + 1, timeSeries, reqRds, inconsistent)
             ELSE IF res.err # "nil" /\ how # "keep"
             THEN makeReqLoopChanged(how, rds, k + 1, timeSeries, reqRds, noResource)
             ELSE IF how # "no break" /\
                     Len(timeSeries) + (IF how = "late break" THEN 0 ELSE 1) = MaxTimeSeriesPerUpload
                  THEN [last |-> k, timeSeries |-> Append(timeSeries, ts),
                        reqRds |-> Append(reqRds, rd),
                        errs |-> IF res.err # "nil" THEN noResource ELSE errs]
                  ELSE makeReqLoopChanged(how, rds, k + 1, Append(timeSeries, ts),
                                          Append(reqRds, rd),
                                          IF res.err # "nil" THEN noResource ELSE errs)

makeReqLoopNoBreak(rds, k, timeSeries, reqRds, errs) ==
    makeReqLoopChanged("no break", rds, k, timeSeries, reqRds, errs)

makeReqLoopLateBreak(rds, k, timeSeries, reqRds, errs) ==
    makeReqLoopChanged("late break", rds, k, timeSeries, reqRds, errs)

makeReqLoopStop(rds, k, timeSeries, reqRds, errs) ==
    makeReqLoopChanged("stop", rds, k, timeSeries, reqRds, errs)

makeReqLoopKeep(rds, k, timeSeries, reqRds, errs) ==
    makeReqLoopChanged("keep", rds, k, timeSeries, reqRds, errs)

\* the loop breaks at the limit of rows examined: a failing row takes the
\* place of a series
RECURSIVE makeReqLoopCountAll(_, _, _, _, _)
makeReqLoopCountAll(rds, k, timeSeries, reqRds, errs) ==
    IF k > Len(rds)
    THEN [last |-> Len(rds), timeSeries |-> timeSeries, reqRds |-> reqRds, errs |-> errs]
    ELSE LET rd == rds[k]
             pt == newPoint(rd.View, rd.Row, rd.Start, rd.End)
             res == makeResource(rd)
             ts == [Type |-> rd.View.Name, Resource |-> res.resource, Point |-> pt]
             failed == pt.Value.kind = "nil" \/ res.err # "nil"
             report == IF pt.Value.kind = "nil"
                       THEN ErrRd("inconsistent data found in view", rd.View.Name, "nil", "", <<rd>>)
                       ELSE ErrRd("failed to construct resource of view", rd.View.Name, res.err, "", <<rd>>)
             timeSeries1 == IF failed THEN timeSeries ELSE Append(timeSeries, ts)
             reqRds1 == IF failed THEN reqRds ELSE Append(reqRds, rd)
             errs1 == IF failed THEN Append(errs, report) ELSE errs
         IN  IF k = MaxTimeSeriesPerUpload
             THEN [last |-> k, timeSeries |-> timeSeries1, reqRds |-> reqRds1, errs |-> errs1]
             ELSE makeReqLoopCountAll(rds, k + 1, timeSeries1, reqRds1, errs1)

\* the loop of makeReq from row k on: timeSeries and reqRds grow together,
\* failing rows are reported and skipped, the loop breaks at the limit.
\* last is the index of the last row examined (Go's i, counted from 1).
RECURSIVE makeReqLoop(_, _, _, _, _)
makeReqLoop(rds, k, timeSeries, reqRds, errs) ==
    IF k > Len(rds)
    THEN [last |-> Len(rds), timeSeries |-> timeSeries, reqRds |-> reqRds, errs |-> errs]
    ELSE LET rd == rds[k]
             pt == newPoint(rd.View, rd.Row, rd.Start, rd.End)
             res == makeResource(rd)
         IN  IF pt.Value.kind = "nil"
             THEN makeReqLoop(rds, k + 1, timeSeries, reqRds,
                      Append(errs, ErrRd("inconsistent data found in view", rd.View.Name, "nil", "", <<rd>>)))
             ELSE IF res.err # "nil"
             THEN makeReqLoop(rds, k + 1, timeSeries, reqRds,
                      Append(errs, ErrRd("failed to construct resource of view", rd.View.Name, res.err, "", <<rd>>)))
             ELSE LET ts == [Type |-> rd.View.Name, Resource |-> res.resource, Point |-> pt]
                  IN  IF Len(timeSeries) + 1 = MaxTimeSeriesPerUpload
                      THEN [last |-> k, timeSeries |-> Append(timeSeries, ts),
                            reqRds |-> Append(reqRds, rd), errs |-> errs]
                      ELSE makeReqLoop(rds, k + 1, Append(timeSeries, ts), Append(reqRds, rd), errs)

\* a nil *CreateTimeSeriesRequest
NilReq == [nil |-> TRUE, Name |-> <<>>, TimeSeries |-> <<>>]

\* makeReq with each series put in front of the list instead of appended
makeReqReversed(pd, rds) ==
    LET r == makeReqLoop(rds, 1, <<>>, <<>>, <<>>)
        n == Len(r.timeSeries)
    IN  [req |-> IF n = 0
                 THEN NilReq
                 ELSE [nil |-> FALSE, Name |-> <<"projects", pd.projectID>>,
                       TimeSeries |-> [j \in 1..n |-> r.timeSeries[n + 1 - j]]],
         reqRds |-> r.reqRds,
         remainingRds |-> SubSeq(rds, r.last + 1, Len(rds)),
         errs |-> r.errs]

\* makeReq returns a request even when it has no series
makeReqNeverNil(pd, rds) ==
    LET r == makeReqLoop(rds, 1, <<>>, <<>>, <<>>)
    IN  [req |-> [nil |-> FALSE, Name |-> <<"projects", pd.projectID>>,
                  TimeSeries |-> r.timeSeries],
         reqRds |-> r.reqRds,
         remainingRds |-> SubSeq(rds, r.last + 1, Len(rds)),
         errs |-> r.errs]

\* every request is named after project1
makeReqProject1(pd, rds) ==
    LET r == makeReqLoop(rds, 1, <<>>, <<>>, <<>>)
    IN  [req |-> IF Len(r.timeSeries) = 0
                 THEN NilReq
                 ELSE [nil |-> FALSE, Name |-> <<"projects", project1>>,
                       TimeSeries |-> r.timeSeries],
         reqRds |-> r.reqRds,
         remainingRds |-> SubSeq(rds, r.last + 1, Len(rds)),
         errs |-> r.errs]

\* remainingRds starts at the last row examined: rds[i:]
makeReqFromLast(pd, rds) ==
    LET r == makeReqLoop(rds, 1, <<>>, <<>>, <<>>)
    IN  [req |-> IF Len(r.timeSeries) = 0
                 THEN NilReq
                 ELSE [nil |-> FALSE, Name |-> <<"projects", pd.projectID>>,
                       TimeSeries |-> r.timeSeries],
         reqRds |-> r.reqRds,
         remainingRds |-> SubSeq(rds, r.last, Len(rds)),
         errs |-> r.errs]

\* when there is nothing to request every row is left for the next call
makeReqStuck(pd, rds) ==
    LET r == makeReqLoop(rds, 1, <<>>, <<>>, <<>>)
    IN  [req |-> IF Len(r.timeSeries) = 0
                 THEN NilReq
                 ELSE [nil |-> FALSE, Name |-> <<"projects", pd.projectID>>,
                       TimeSeries |-> r.timeSeries],
         reqRds |-> r.reqRds,
         remainingRds |-> IF Len(r.timeSeries) = 0
                          THEN rds
                          ELSE SubSeq(rds, r.last + 1, Len(rds)),
         errs |-> r.errs]

\* makeReq(rds) of projectData pd, for a non-empty rds: the request (or
\* nil), the rows in it, the rows not examined, and the onError calls made
makeReq(pd, rds) ==
    LET r == makeReqLoop(rds, 1, <<>>, <<>>, <<>>)
    IN  [req |-> IF Len(r.timeSeries) = 0
                 THEN NilReq
                 ELSE [nil |-> FALSE, Name |-> <<"projects", pd.projectID>>,
                       TimeSeries |-> r.timeSeries],
         reqRds |-> r.reqRds,
         remainingRds |-> SubSeq(rds, r.last + 1, Len(rds)),
         errs |-> r.errs]

\* an invocation of uploadRowData on bundle, for the projectData at index p.
\* kind tells who called it: the bundler's handler for a bundle closed by the
\* count threshold ("count"), the delay threshold ("delay") or Flush
\* ("flush"), a direct call with a list of rows as the tests make it
\* ("call"), or the go statement of exportRowData ("go").  The go statement
\* passes rd itself, a *RowData and not a []*RowData: bundle then holds that
\* one row, and the invocation cannot read it as a list (see UploadMakeReq).
NewUpload(p, kind, bundle) ==
    [pd |-> p, kind |-> kind, bundle |-> bundle, rds |-> bundle, reqRds |-> <<>>,
     reqs |-> <<>>, errs |-> <<>>,
     pc |-> IF Len(bundle) = 0 THEN "done" ELSE "run"]

\* a goroutine has panicked and nothing recovers: the process is gone
Panicked == \E t \in 1..Len(uploads) : uploads[t].pc = "panic"

\* the bundler runs one handler at a time, in the order the bundles closed;
\* an upload called otherwise waits for nothing
HandlerMayRun(t) ==
    uploads[t].kind \in {"go", "call"} \/
    \A u \in 1..(t - 1) :
        (uploads[u].pd = uploads[t].pd /\ uploads[u].kind # "go") => uploads[u].pc = "done"

\* uploadRowData takes e.mu before it calls CreateTimeSeries
UploadMakeReqLocked(t) ==
    /\ ~Panicked
    /\ uploads[t].pc = "run"
    /\ HandlerMayRun(t)
    /\ LET u == uploads[t]
           r == makeReq(pds[u.pd], u.rds)
           errs == u.errs \o r.errs
       IN  IF u.kind = "go"
           THEN /\ uploads' = [uploads EXCEPT ![t].pc = "panic"]
                /\ mu' = mu
           ELSE IF r.req.nil
           THEN /\ uploads' = [uploads EXCEPT ![t].rds = r.remainingRds,
                                              ![t].errs = errs,
                                              ![t].pc = IF Len(r.remainingRds) = 0 THEN "done" ELSE "run"]
                /\ mu' = mu
           ELSE /\ mu \in {"free", "upload"}
                /\ mu' = "upload"
                /\ uploads' = [uploads EXCEPT ![t].rds = r.remainingRds,
                                              ![t].errs = errs,
                                              ![t].reqRds = r.reqRds,
                                              ![t].reqs = Append(u.reqs,
                                                  [req |-> r.req, rds |-> r.reqRds,
                                                   result |-> "inflight", closed |-> clientClosed]),
                                              ![t].pc = "rpc"]
    /\ UNCHANGED <<opts, call, MaxTimeSeriesPerUpload, projDataMap, pds, clientClosed, callers, closer,
                   errRds, nextRd, rowDatas>>

\* uploadRowData, from its type assertion bundle.([]*RowData), which panics
\* when bundle is the *RowData of the go statement, or one loop iteration up
\* to the RPC call: makeReq, then either nothing to send (continue) or
\* CreateTimeSeries is called
UploadMakeReq(t) ==
    /\ ~Panicked
    /\ uploads[t].pc = "run"
    /\ HandlerMayRun(t)
    /\ LET u == uploads[t]
           r == makeReq(pds[u.pd], u.rds)
           errs == u.errs \o r.errs
       IN  IF u.kind = "go"
           THEN uploads' = [uploads EXCEPT ![t].pc = "panic"]
           ELSE IF r.req.nil
           THEN uploads' = [uploads EXCEPT ![t].rds = r.remainingRds,
                                           ![t].errs = errs,
                                           ![t].pc = IF Len(r.remainingRds) = 0 THEN "done" ELSE "run"]
           ELSE uploads' = [uploads EXCEPT ![t].rds = r.remainingRds,
                                           ![t].errs = errs,
                                           ![t].reqRds = r.reqRds,
                                           ![t].reqs = Append(u.reqs,
                                               [req |-> r.req, rds |-> r.reqRds,
                                                result |-> "inflight", closed |-> clientClosed]),
                                           ![t].pc = "rpc"]
    /\ UNCHANGED <<opts, call, MaxTimeSeriesPerUpload, projDataMap, pds, mu, clientClosed, callers, closer,
                   errRds, nextRd, rowDatas>>

\* a failed call is not reported
rpcErrRdsNone(u, err) == <<>>

\* a failed call is reported with every row of the bundle
rpcErrRdsBundle(u, err) ==
    IF err # "nil"
    THEN <<ErrRd("RPC call to create time series failed for project", "", err,
                 pds[u.pd].projectID, u.bundle)>>
    ELSE <<>>

\* a failed call is reported with the rows not yet processed
rpcErrRdsRemaining(u, err) ==
    IF err # "nil"
    THEN <<ErrRd("RPC call to create time series failed for project", "", err,
                 pds[u.pd].projectID, u.rds)>>
    ELSE <<>>

\* what uploadRowData does with the result of CreateTimeSeries
rpcErrRds(u, err) ==
    IF err # "nil"
    THEN <<ErrRd("RPC call to create time series failed for project", "", err,
                 pds[u.pd].projectID, u.reqRds)>>
    ELSE <<>>

\* after a failed call the loop goes on with the rows of the failed request
\* put back before remainingRds
CreateTimeSeriesRetry(t, err) ==
    /\ ~Panicked
    /\ uploads[t].pc = "rpc"
    /\ LET u == uploads[t]
           rds == IF err # "nil" THEN u.reqRds \o u.rds ELSE u.rds
       IN  uploads' = [uploads EXCEPT ![t].reqs[Len(u.reqs)].result = err,
                                      ![t].errs = u.errs \o rpcErrRds(u, err),
                                      ![t].rds = rds,
                                      ![t].reqRds = <<>>,
                                      ![t].pc = IF Len(rds) = 0 THEN "done" ELSE "run"]
    /\ UNCHANGED <<opts, call, MaxTimeSeriesPerUpload, projDataMap, pds, mu, clientClosed, callers, closer,
                   errRds, nextRd, rowDatas>>

\* CreateTimeSeries returns err to upload t; the loop goes on with remainingRds
CreateTimeSeriesReturn(t, err) ==
    /\ ~Panicked
    /\ uploads[t].pc = "rpc"
    /\ LET u == uploads[t]
       IN  uploads' = [uploads EXCEPT ![t].reqs[Len(u.reqs)].result = err,
                                      ![t].errs = u.errs \o rpcErrRds(u, err),
                                      ![t].reqRds = <<>>,
                                      ![t].pc = IF Len(u.rds) = 0 THEN "done" ELSE "run"]
    /\ UNCHANGED <<opts, call, MaxTimeSeriesPerUpload, projDataMap, pds, mu, clientClosed, callers, closer,
                   errRds, nextRd, rowDatas>>

UploadStep ==
    \E t \in 1..Len(uploads) :
        \/ UploadMakeReq(t)
        \/ \E err \in {"nil", invalidDataError} : CreateTimeSeriesReturn(t, err)

\* ----------------------------------------------------------------- exporter
NoRd == [id |-> <<>>, View |-> view1, Start |-> 0, End |-> 0, Row |-> naRow]

Idle == [pc |-> "idle", View |-> view1, Start |-> 0, End |-> 0, left |-> 0,
         rd |-> NoRd, projID |-> "", pd |-> 0]

\* rows allocated so far, and rows the calls in progress have yet to read
Allocated == LET c1 == CHOOSE c \in Callers : TRUE
                c2 == CHOOSE c \in Callers : c # c1
            IN  nextRd[c1] + nextRd[c2] + callers[c1].left + callers[c2].left

\* the window of the snapshots of view v, as the tests have them: that of
\* view1 ends before that of view2 starts
SnapshotOf(v) == IF v = view1 THEN [Start |-> 1, End |-> 2] ELSE [Start |-> 3, End |-> 4]

\* ExportView(vd) is called by caller c with a snapshot of view v holding n
\* rows; each row of vd.Rows is drawn when the loop reads it.  Close's
\* contract: no ExportView call is made once Close is called.
ExportView(c, v, n) ==
    /\ ~Panicked
    /\ callers[c].pc = "idle"
    /\ c = "c2" => callers["c1"].pc # "idle"
    /\ closer.pc = "idle"
    /\ Allocated + n <= MaxRowData
    /\ callers' = [callers EXCEPT ![c] = [Idle EXCEPT !.pc = "row", !.View = v,
                                          !.Start = SnapshotOf(v).Start,
                                          !.End = SnapshotOf(v).End, !.left = n]]
    /\ UNCHANGED <<opts, call, MaxTimeSeriesPerUpload, projDataMap, pds, mu, clientClosed,
                   closer, uploads, errRds, nextRd, rowDatas>>

\* the caller's record once exportRowData has returned for the current row:
\* the loop of ExportView goes to the next row or the call returns
NextRow(cl) ==
    IF cl.left = 0
    THEN Idle
    ELSE [cl EXCEPT !.pc = "row", !.rd = NoRd, !.projID = "", !.pd = 0]

\* every error of getProjectID is reported, RowDataNotApplicableError too
classifyReportAll(rd) ==
    LET r == getProjectID(rd)
    IN  [errs |-> IF r.err # "nil"
                  THEN <<ErrRd("failed to get project ID on row data with view",
                               rd.View.Name, r.err, "", <<rd>>)>>
                  ELSE <<>>,
         ok |-> r.err = "nil",
         projID |-> r.projID]

\* no error of getProjectID is reported
classifySwallow(rd) ==
    LET r == getProjectID(rd)
    IN  [errs |-> <<>>, ok |-> r.err = "nil", projID |-> r.projID]

\* exportRowData goes on to getProjectData whatever getProjectID returned
classifyGoOn(rd) ==
    LET r == getProjectID(rd)
    IN  [errs |-> IF r.err # "nil" /\ r.err # NotApplicable
                  THEN <<ErrRd("failed to get project ID on row data with view",
                               rd.View.Name, r.err, "", <<rd>>)>>
                  ELSE <<>>,
         ok |-> TRUE,
         projID |-> r.projID]

\* the first lines of exportRowData: what is reported for the result of
\* getProjectID, and whether the row goes on to a bundler
classify(rd) ==
    LET r == getProjectID(rd)
    IN  [errs |-> IF r.err # "nil" /\ r.err # NotApplicable
                  THEN <<ErrRd("failed to get project ID on row data with view",
                               rd.View.Name, r.err, "", <<rd>>)>>
                  ELSE <<>>,
         ok |-> r.err = "nil",
         projID |-> r.projID]

\* newProjectData
newProjectData(projectID) == [projectID |-> projectID, bndler |-> <<>>, rowDataArr |-> <<>>]

\* the map is searched for any project, not for projectID
getProjectDataAny(projectID) ==
    IF DOMAIN projDataMap # {}
    THEN [map |-> projDataMap, pds |-> pds,
          pd |-> projDataMap[CHOOSE q \in DOMAIN projDataMap : TRUE]]
    ELSE [map |-> [q \in {projectID} |-> Len(pds) + 1],
          pds |-> Append(pds, [projectID |-> projectID, bndler |-> <<>>, rowDataArr |-> <<>>]),
          pd |-> Len(pds) + 1]

\* the map is not searched: a projectData is made and stored on every call
getProjectDataFresh(projectID) ==
    [map |-> [q \in DOMAIN projDataMap \cup {projectID} |->
                IF q = projectID THEN Len(pds) + 1 ELSE projDataMap[q]],
     pds |-> Append(pds, [projectID |-> projectID, bndler |-> <<>>, rowDataArr |-> <<>>]),
     pd |-> Len(pds) + 1]

\* the body of getProjectData: the map and the projectData list afterwards,
\* and the index of the projectData returned
getProjectData(projectID) ==
    IF projectID \in DOMAIN projDataMap
    THEN [map |-> projDataMap, pds |-> pds, pd |-> projDataMap[projectID]]
    ELSE [map |-> [q \in DOMAIN projDataMap \cup {projectID} |->
                     IF q = projectID THEN Len(pds) + 1 ELSE projDataMap[q]],
          pds |-> Append(pds, newProjectData(projectID)),
          pd |-> Len(pds) + 1]

\* getProjectData returns without unlocking: Add is called under e.mu
ExportRowDataKeepLock(c, row) ==
    /\ ~Panicked
    /\ callers[c].pc = "row"
    /\ LET cl == [callers[c] EXCEPT !.left = callers[c].left - 1]
           rd == [id |-> <<c, nextRd[c] + 1>>, View |-> cl.View, Start |-> cl.Start,
                  End |-> cl.End, Row |-> row]
           r == classify(rd)
           g == getProjectData(r.projID)
       IN  /\ errRds' = errRds \o r.errs
           /\ nextRd' = [nextRd EXCEPT ![c] = nextRd[c] + 1]
           /\ rowDatas' = rowDatas \cup {rd}
           /\ IF r.ok
              THEN /\ mu = "free"
                   /\ mu' = "getProjectData"
                   /\ projDataMap' = g.map
                   /\ pds' = g.pds
                   /\ callers' = [callers EXCEPT ![c] =
                                     [cl EXCEPT !.pc = "add", !.rd = rd, !.projID = r.projID,
                                                !.pd = g.pd]]
              ELSE /\ callers' = [callers EXCEPT ![c] = NextRow(cl)]
                   /\ UNCHANGED <<projDataMap, pds, mu>>
    /\ UNCHANGED <<opts, call, MaxTimeSeriesPerUpload, clientClosed, closer, uploads>>

\* the RowData is built with Start and End taken one for the other
ExportRowDataSwitched(c, row) ==
    /\ ~Panicked
    /\ callers[c].pc = "row"
    /\ LET cl == [callers[c] EXCEPT !.left = callers[c].left - 1]
           rd == [id |-> <<c, nextRd[c] + 1>>, View |-> cl.View, Start |-> cl.End,
                  End |-> cl.Start, Row |-> row]
           r == classify(rd)
           g == getProjectData(r.projID)
       IN  /\ errRds' = errRds \o r.errs
           /\ nextRd' = [nextRd EXCEPT ![c] = nextRd[c] + 1]
           /\ rowDatas' = rowDatas \cup {rd}
           /\ IF r.ok
              THEN /\ mu = "free"
                   /\ projDataMap' = g.map
                   /\ pds' = g.pds
                   /\ callers' = [callers EXCEPT ![c] =
                                     [cl EXCEPT !.pc = "add", !.rd = rd, !.projID = r.projID,
                                                !.pd = g.pd]]
              ELSE /\ callers' = [callers EXCEPT ![c] = NextRow(cl)]
                   /\ UNCHANGED <<projDataMap, pds>>
    /\ UNCHANGED <<opts, call, MaxTimeSeriesPerUpload, mu, clientClosed, closer, uploads>>

\* the loop body of ExportView for the row it reads next, up to the return
\* of exportRowData or its call of pd.bndler.Add: the RowData is built and
\* classified, and getProjectData (e.mu.Lock(), lookup or insertion, deferred
\* e.mu.Unlock()) finds its projectData
ExportRowData(c, row) ==
    /\ ~Panicked
    /\ callers[c].pc = "row"
    /\ LET cl == [callers[c] EXCEPT !.left = callers[c].left - 1]
           rd == [id |-> <<c, nextRd[c] + 1>>, View |-> cl.View, Start |-> cl.Start,
                  End |-> cl.End, Row |-> row]
           r == classify(rd)
           g == getProjectData(r.projID)
       IN  /\ errRds' = errRds \o r.errs
           /\ nextRd' = [nextRd EXCEPT ![c] = nextRd[c] + 1]
           /\ rowDatas' = rowDatas \cup {rd}
           /\ IF r.ok
              THEN /\ mu = "free"
                   /\ projDataMap' = g.map
                   /\ pds' = g.pds
                   /\ callers' = [callers EXCEPT ![c] =
                                     [cl EXCEPT !.pc = "add", !.rd = rd, !.projID = r.projID,
                                                !.pd = g.pd]]
              ELSE /\ callers' = [callers EXCEPT ![c] = NextRow(cl)]
                   /\ UNCHANGED <<projDataMap, pds>>
    /\ UNCHANGED <<opts, call, MaxTimeSeriesPerUpload, mu, clientClosed, closer, uploads>>

\* the bundler keeps the row with its window closed at the end time
bundlerAddStamped(p, rd) ==
    LET items == Append(pds[p].bndler, [rd EXCEPT !.Start = rd.End])
    IN  IF Len(items) >= BundleCountThreshold
        THEN [pending |-> <<>>, handled |-> <<NewUpload(p, "count", items)>>]
        ELSE [pending |-> items, handled |-> <<>>]

\* the bundle is closed only once it holds more rows than the threshold
bundlerAddLate(p, rd) ==
    LET items == Append(pds[p].bndler, rd)
    IN  IF Len(items) > BundleCountThreshold
        THEN [pending |-> <<>>, handled |-> <<NewUpload(p, "count", items)>>]
        ELSE [pending |-> items, handled |-> <<>>]

\* the bundler's Add accepted rd: it joins the pending bundle, and a bundle
\* that reaches the count threshold is closed and handed to the handler
bundlerAdd(p, rd) ==
    LET items == Append(pds[p].bndler, rd)
    IN  IF Len(items) >= BundleCountThreshold
        THEN [pending |-> <<>>, handled |-> <<NewUpload(p, "count", items)>>]
        ELSE [pending |-> items, handled |-> <<>>]

\* a row Add calls oversized is buffered like an accepted row
addSwitchBufferOversized(p, rd, projID, err) ==
    IF err \in {"nil", ErrOversizedItem}
    THEN [pending |-> bundlerAdd(p, rd).pending, started |-> bundlerAdd(p, rd).handled,
          errs |-> <<>>]
    ELSE [pending |-> pds[p].bndler, started |-> <<>>,
          errs |-> <<ErrRd("failed to add row data with view to bundle for project",
                           rd.View.Name, err, projID, <<rd>>)>>]

\* the default case of the switch reports nothing
addSwitchSilent(p, rd, projID, err) ==
    CASE err = "nil" ->
            [pending |-> bundlerAdd(p, rd).pending, started |-> bundlerAdd(p, rd).handled,
             errs |-> <<>>]
      [] err = ErrOversizedItem ->
            [pending |-> pds[p].bndler, started |-> <<NewUpload(p, "go", <<rd>>)>>,
             errs |-> <<>>]
      [] OTHER ->
            [pending |-> pds[p].bndler, started |-> <<>>, errs |-> <<>>]

\* the switch of exportRowData on the result of pd.bndler.Add(rd, 1):
\* the bundler's pending rows, the uploadRowData invocations started
\* and the onError calls made
addSwitch(p, rd, projID, err) ==
    CASE err = "nil" ->
            [pending |-> bundlerAdd(p, rd).pending, started |-> bundlerAdd(p, rd).handled,
             errs |-> <<>>]
      [] err = ErrOversizedItem ->
            [pending |-> pds[p].bndler, started |-> <<NewUpload(p, "go", <<rd>>)>>,
             errs |-> <<>>]
      [] OTHER ->
            [pending |-> pds[p].bndler, started |-> <<>>,
             errs |-> <<ErrRd("failed to add row data with view to bundle for project",
                               rd.View.Name, err, projID, <<rd>>)>>]

\* pd.bndler.Add(rd, 1) returns, and exportRowData returns
BundlerAdd(c) ==
    /\ ~Panicked
    /\ callers[c].pc = "add"
    /\ LET cl == callers[c]
           r == addSwitch(cl.pd, cl.rd, cl.projID, cl.rd.Row.add)
       IN  /\ pds' = [pds EXCEPT ![cl.pd].bndler = r.pending,
                                  ![cl.pd].rowDataArr = Append(pds[cl.pd].rowDataArr, cl.rd)]
           /\ uploads' = uploads \o r.started
           /\ errRds' = errRds \o r.errs
           /\ callers' = [callers EXCEPT ![c] = NextRow(cl)]
    /\ UNCHANGED <<opts, call, MaxTimeSeriesPerUpload, projDataMap, mu, clientClosed, closer, nextRd, rowDatas>>

\* the bundler's delay threshold passes for projectData p: the pending rows
\* are handed to the handler
BundleDelay(p) ==
    /\ ~Panicked
    /\ Len(pds[p].bndler) > 0
    /\ uploads' = Append(uploads, NewUpload(p, "delay", pds[p].bndler))
    /\ pds' = [pds EXCEPT ![p].bndler = <<>>]
    /\ UNCHANGED <<opts, call, MaxTimeSeriesPerUpload, projDataMap, mu, clientClosed, callers,
                   closer, errRds, nextRd, rowDatas>>

\* -------------------------------------------------------------------- Close
\* Close goes on without taking e.mu
CloseLockNot ==
    /\ ~Panicked
    /\ closer.pc = "idle"
    /\ \A c \in Callers : callers[c].pc = "idle"
    /\ nextRd["c2"] = 0
    /\ closer' = [pc |-> "locked", todo |-> DOMAIN projDataMap, cur |-> 0, err |-> "nil"]
    /\ UNCHANGED <<opts, call, MaxTimeSeriesPerUpload, projDataMap, pds, mu, clientClosed, callers,
                   uploads, errRds, nextRd, rowDatas>>

\* e.mu.Lock() of Close.  Close is called when every ExportView call has
\* returned.  What it finds then (pending rows, uploads in progress, reports)
\* does not depend on whether those calls overlapped: one caller exporting
\* the same rows one snapshot at a time leaves the same state, up to the
\* names of the rows.  Close is explored from the states one caller leaves.
CloseLock ==
    /\ ~Panicked
    /\ closer.pc = "idle"
    /\ \A c \in Callers : callers[c].pc = "idle"
    /\ nextRd["c2"] = 0
    /\ mu = "free"
    /\ mu' = "Close"
    /\ closer' = [pc |-> "locked", todo |-> DOMAIN projDataMap, cur |-> 0, err |-> "nil"]
    /\ UNCHANGED <<opts, call, MaxTimeSeriesPerUpload, projDataMap, pds, clientClosed, callers,
                   uploads, errRds, nextRd, rowDatas>>

\* Flush of a bundler starts: the pending rows, if any, go to the handler
flushStart(p) ==
    IF Len(pds[p].bndler) > 0 THEN <<NewUpload(p, "flush", pds[p].bndler)>> ELSE <<>>

\* Flush returns when every upload of the project has returned, the
\* detached ones too
flushDoneJoinAll(p) ==
    \A u \in 1..Len(uploads) : uploads[u].pd = p => uploads[u].pc = "done"

\* Flush returns when every handler invocation of the bundler has returned
flushDone(p) ==
    \A u \in 1..Len(uploads) :
        (uploads[u].pd = p /\ uploads[u].kind # "go") => uploads[u].pc = "done"

\* the loop of Close calls pd.bndler.Flush() for the next project
CloseFlush(projectID) ==
    /\ ~Panicked
    /\ closer.pc = "locked"
    /\ projectID \in closer.todo
    /\ LET p == projDataMap[projectID]
       IN  /\ uploads' = uploads \o flushStart(p)
           /\ pds' = [pds EXCEPT ![p].bndler = <<>>]
           /\ closer' = [closer EXCEPT !.pc = "flushing", !.cur = p,
                                       !.todo = closer.todo \ {projectID}]
    /\ UNCHANGED <<opts, call, MaxTimeSeriesPerUpload, projDataMap, mu, clientClosed, callers,
                   errRds, nextRd, rowDatas>>

\* Flush returns to Close
CloseFlushReturn ==
    /\ ~Panicked
    /\ closer.pc = "flushing"
    /\ flushDone(closer.cur)
    /\ closer' = [closer EXCEPT !.pc = "locked", !.cur = 0]
    /\ UNCHANGED <<opts, call, MaxTimeSeriesPerUpload, projDataMap, pds, mu, clientClosed, callers,
                   uploads, errRds, nextRd, rowDatas>>

\* Close leaves its loop whether or not a project is left to flush
closeLoopDoneEarly == TRUE

\* Close may leave its loop
closeLoopDone == closer.todo = {}

\* Close goes on to close the client without e.mu.Unlock()
CloseUnlockNot ==
    /\ ~Panicked
    /\ closer.pc = "locked"
    /\ closeLoopDone
    /\ closer' = [closer EXCEPT !.pc = "unlocked"]
    /\ UNCHANGED <<opts, call, MaxTimeSeriesPerUpload, projDataMap, pds, mu, clientClosed, callers,
                   uploads, errRds, nextRd, rowDatas>>

\* e.mu.Unlock() of Close
CloseUnlock ==
    /\ ~Panicked
    /\ closer.pc = "locked"
    /\ closeLoopDone
    /\ mu' = "free"
    /\ closer' = [closer EXCEPT !.pc = "unlocked"]
    /\ UNCHANGED <<opts, call, MaxTimeSeriesPerUpload, projDataMap, pds, clientClosed, callers,
                   uploads, errRds, nextRd, rowDatas>>

\* e.client.Close() returns err, and Close returns
ClientClose(err) ==
    /\ ~Panicked
    /\ closer.pc = "unlocked"
    /\ clientClosed' = TRUE
    /\ closer' = [closer EXCEPT !.pc = "done", !.err = err]
    /\ UNCHANGED <<opts, call, MaxTimeSeriesPerUpload, projDataMap, pds, mu, callers,
                   uploads, errRds, nextRd, rowDatas>>

\* --------------------------------------------------------------------- Spec
\* NewStatsExporter succeeded: no project, nothing sent, nothing reported
Init ==
    /\ opts \in {Options(g, << >>, <<>>) : g \in {"nil", "set"}}
    /\ call = NoCall
    /\ MaxTimeSeriesPerUpload = SeriesLimit
    /\ projDataMap = << >>
    /\ pds = <<>>
    /\ mu = "free"
    /\ clientClosed = FALSE
    /\ callers = [c \in Callers |-> Idle]
    /\ closer = [pc |-> "idle", todo |-> {}, cur |-> 0, err |-> "nil"]
    /\ uploads = <<>>
    /\ errRds = <<>>
    /\ nextRd = [c \in Callers |-> 0]
    /\ rowDatas = {}

Next ==
    \/ \E c \in Callers, v \in Views, n \in 1..MaxRowsPerView : ExportView(c, v, n)
    \/ \E c \in Callers : \E row \in RowsOf(callers[c].View) : ExportRowData(c, row)
    \/ \E c \in Callers : BundlerAdd(c)
    \/ \E p \in 1..Len(pds) : BundleDelay(p)
    \/ UploadStep
    \/ CloseLock
    \/ \E projectID \in DOMAIN projDataMap : CloseFlush(projectID)
    \/ CloseFlushReturn
    \/ CloseUnlock
    \/ \E err \in {"nil", invalidDataError} : ClientClose(err)

Spec == Init /\ [][Next]_vars

\* ---------------------------------------------------------------- CloseSpec
\* The exporter used as Close's contract has it, seen from the one goroutine
\* that calls ExportView and then Close, under a scheduler that lets every
\* goroutine run: a bundle handler that can take a step takes one
\* (CreateTimeSeries and the callbacks return), and so does Close (Flush
\* returns when the handlers have, client.Close returns).  Nothing obliges
\* the program to call ExportView or Close, or a delay threshold to pass.
\* The delay threshold is long: it passes, if at all, once Close has been
\* called, so that the handlers Close finds in progress were started by the
\* count threshold, and those started by the delay race with its Flush.
CloseNext ==
    \/ \E v \in Views, n \in 1..MaxRowsPerView : ExportView("c1", v, n)
    \/ \E row \in RowsOf(callers["c1"].View) : ExportRowData("c1", row)
    \/ BundlerAdd("c1")
    \/ closer.pc # "idle" /\ \E p \in 1..Len(pds) : BundleDelay(p)
    \/ UploadStep
    \/ CloseLock
    \/ \E projectID \in DOMAIN projDataMap : CloseFlush(projectID)
    \/ CloseFlushReturn
    \/ CloseUnlock
    \/ \E err \in {"nil", invalidDataError} : ClientClose(err)

CloseFairness ==
    /\ WF_vars(UploadStep)
    /\ WF_vars(\E projectID \in DOMAIN projDataMap : CloseFlush(projectID))
    /\ WF_vars(CloseFlushReturn)
    /\ WF_vars(CloseUnlock)
    /\ WF_vars(\E err \in {"nil", invalidDataError} : ClientClose(err))

CloseSpec == Init /\ [][CloseNext]_vars /\ CloseFairness

\* --------------------------------------------------------------- UploadSpec
\* newMockUploader: an exporter with no project in its map and one
\* projectData for project1, whose uploadRowData is called on a bundle
RowDataOf(i, v, row) == [id |-> <<"b", i>>, View |-> v, Start |-> 1, End |-> 2, Row |-> row]

UploadBundles ==
    {[i \in 1..Len(s) |-> RowDataOf(i, s[i][1], s[i][2])] : s \in SeqsUpTo({view1} \X UploadRows, MaxBundleLen)}

UploadInit ==
    /\ opts = Options("set", << >>, <<>>)
    /\ call = NoCall
    /\ MaxTimeSeriesPerUpload \in 1..MaxSeriesLimit
    /\ projDataMap = << >>
    /\ pds = <<newProjectData(project1)>>
    /\ mu = "free"
    /\ clientClosed = FALSE
    /\ callers = [c \in Callers |-> Idle]
    /\ closer = [pc |-> "idle", todo |-> {}, cur |-> 0, err |-> "nil"]
    /\ \E b \in UploadBundles : uploads = <<NewUpload(1, "call", b)>>
    /\ errRds = <<>>
    /\ nextRd = [c \in Callers |-> 0]
    /\ rowDatas = {}

UploadNext == UploadStep

UploadSpec == UploadInit /\ [][UploadNext]_vars

\* one row of each kind uploadRowData tells apart: a row that gets a series,
\* a row without point value and a row without resource
FairRows == {view1row1, invalidRow, noResRow}

\* uploadRowData is called on a bundle of rows of these kinds, in any order
\* and any number of each
UploadFairInit ==
    /\ UploadInit
    /\ \A k \in 1..Len(uploads[1].bundle) : uploads[1].bundle[k].Row \in FairRows

\* uploadRowData under a scheduler that lets it run, with a client whose
\* CreateTimeSeries returns and callbacks that return
UploadFairSpec == UploadFairInit /\ [][UploadNext]_vars /\ WF_vars(UploadStep)

\* ------------------------------------------------------------------- labels
\* tags of a row at most
MaxTags == 2
\* entries of Options.UnexportedLabels at most
MaxUnexported == 2

label1name == "key_1"
label2name == "key_2"
label3name == "key_3"
value1 == "value_1"
value2 == "value_2"
value4 == "value_4"

LabelKeys == {label1name, label2name, label3name}

\* a tag.Tag
Tag(key, value) == [Key |-> key, Value |-> value]

\* the tag lists of a row: a key may come more than once
TagLists == {<<>>} \cup SeqsUpTo({Tag(k, v) : k \in LabelKeys, v \in {value1, value2}}, MaxTags)

\* the values Options.DefaultLabels may have
DefaultLabelMaps == UNION {[K -> {value4}] : K \in SUBSET LabelKeys}

\* the values Options.UnexportedLabels may have
UnexportedLists == {<<>>} \cup SeqsUpTo(LabelKeys, MaxUnexported)

\* labels[key] = val
MapSet(labels, key, val) ==
    [k \in DOMAIN labels \cup {key} |-> IF k = key THEN val ELSE labels[k]]

\* delete(labels, key)
MapDelete(labels, key) == [k \in DOMAIN labels \ {key} |-> labels[k]]

\* the loop of makeLabels over tags, in order
RECURSIVE setTags(_, _)
setTags(labels, tags) ==
    IF Len(tags) = 0
    THEN labels
    ELSE setTags(MapSet(labels, Head(tags).Key, Head(tags).Value), Tail(tags))

\* the loop of makeLabels over opts.DefaultLabels: a key is set whatever
\* order the map is ranged in
setDefaults(labels, defaults) ==
    [k \in DOMAIN labels \cup DOMAIN defaults |->
        IF k \in DOMAIN defaults THEN defaults[k] ELSE labels[k]]

\* the loop of makeLabels over opts.UnexportedLabels
RECURSIVE deleteKeys(_, _)
deleteKeys(labels, keys) ==
    IF Len(keys) = 0
    THEN labels
    ELSE deleteKeys(MapDelete(labels, Head(keys)), Tail(keys))

\* the default labels are set after the tags
makeLabelsDefaultsWin(tags) ==
    deleteKeys(setDefaults(setTags(<< >>, tags), opts.DefaultLabels), opts.UnexportedLabels)

makeLabels(tags) ==
    deleteKeys(setTags(setDefaults(<< >>, opts.DefaultLabels), tags), opts.UnexportedLabels)

\* e.makeLabels(tags) is called and returns
MakeLabels(tags) ==
    /\ call.fn = "none"
    /\ call' = [fn |-> "makeLabels", tags |-> tags, labels |-> makeLabels(tags)]
    /\ UNCHANGED <<opts, MaxTimeSeriesPerUpload, projDataMap, pds, mu, clientClosed, callers,
                   closer, uploads, errRds, nextRd, rowDatas>>

\* the default label of the project key is looked up before the tags
getProjNameDefaultFirst(tags, projKey) ==
    IF projKey \in DOMAIN opts.DefaultLabels
    THEN [projName |-> opts.DefaultLabels[projKey], ok |-> TRUE]
    ELSE IF \E i \in 1..Len(tags) : tags[i].Key = projKey
    THEN [projName |-> tags[CHOOSE i \in 1..Len(tags) :
                               /\ tags[i].Key = projKey
                               /\ \A j \in 1..(i - 1) : tags[j].Key # projKey].Value,
          ok |-> TRUE]
    ELSE [projName |-> "", ok |-> FALSE]

\* e.getProjName(row) for a row with the tags given, when e.projectKeyName is
\* projKey: the loop over row.Tags returns at the first tag with that key,
\* and after the loop the map of default labels is looked up
RECURSIVE getProjName(_, _)
getProjName(tags, projKey) ==
    IF Len(tags) = 0
    THEN IF projKey \in DOMAIN opts.DefaultLabels
         THEN [projName |-> opts.DefaultLabels[projKey], ok |-> TRUE]
         ELSE [projName |-> "", ok |-> FALSE]
    ELSE IF Head(tags).Key = projKey
    THEN [projName |-> Head(tags).Value, ok |-> TRUE]
    ELSE getProjName(Tail(tags), projKey)

\* e.getProjName(row) is called and returns.  It reads the default labels
\* and no other option.
GetProjName(tags, projKey) ==
    /\ call.fn = "none"
    /\ opts.UnexportedLabels = <<>>
    /\ call' = [fn |-> "getProjName", tags |-> tags, projKey |-> projKey,
                ret |-> getProjName(tags, projKey)]
    /\ UNCHANGED <<opts, MaxTimeSeriesPerUpload, projDataMap, pds, mu, clientClosed, callers,
                   closer, uploads, errRds, nextRd, rowDatas>>

\* ------------------------------------------------------------------- points
\* the latest time of a window
MaxTime == 3

\* the bucket bounds of a view
PointBuckets == {<<>>, <<Float(1), Float(2)>>}

\* views of every aggregation type and measure type, and without measure
PointViews ==
    {[Name |-> "metric_1", Measure |-> m, Aggregation |-> a, Buckets |-> b] :
        m \in {"Int64Measure", "Float64Measure", "nil"},
        a \in {"AggTypeNone", "AggTypeCount", "AggTypeSum", "AggTypeDistribution",
               "AggTypeLastValue"},
        b \in PointBuckets}

\* a row that holds a view.DistributionData
DistRow(count, mean, ssd, perBucket) ==
    [Data |-> "DistributionData", Value |-> 0, Count |-> count, Mean |-> mean,
     SumOfSquaredDev |-> ssd, CountPerBucket |-> perBucket,
     proj |-> project1, res |-> "ok", add |-> "nil"]

\* rows of every type of data, and without data; the float64 values are
\* not whole numbers
PointRows ==
    {Row("CountData", 5, project1, "ok", "nil"), Row("nil", 0, project1, "ok", "nil"),
     DistRow(0, 0, 0, <<>>), DistRow(5, Float(2) + 1, Float(3), <<2, 0, 3>>)}
    \cup {Row(d, f, project1, "ok", "nil") :
             d \in {"SumData", "LastValueData"}, f \in {Float(2) + 1, 0 - (Float(1) + 1)}}

\* newPoint(v, row, start, end) is called and returns.  It reads no option:
\* it is called on the exporter made without labels.
NewPoint(v, row, start, end) ==
    /\ call.fn = "none"
    /\ opts = Options("set", << >>, <<>>)
    /\ call' = [fn |-> "newPoint", v |-> v, row |-> row, start |-> start, end |-> end,
                point |-> newPoint(v, row, start, end)]
    /\ UNCHANGED <<opts, MaxTimeSeriesPerUpload, projDataMap, pds, mu, clientClosed, callers,
                   closer, uploads, errRds, nextRd, rowDatas>>

\* newTypedValue(vd, r) is called and returns
NewTypedValue(vd, r) ==
    /\ call.fn = "none"
    /\ opts = Options("set", << >>, <<>>)
    /\ call' = [fn |-> "newTypedValue", vd |-> vd, r |-> r, value |-> newTypedValue(vd, r)]
    /\ UNCHANGED <<opts, MaxTimeSeriesPerUpload, projDataMap, pds, mu, clientClosed, callers,
                   closer, uploads, errRds, nextRd, rowDatas>>

\* pd.makeReq(rds) is called and returns, for the projectData of project1
\* and a list of one RowData made of view v and row
MakeReq(v, row) ==
    /\ call.fn = "none"
    /\ opts = Options("set", << >>, <<>>)
    /\ call' = [fn |-> "makeReq", rd |-> RowDataOf(1, v, row),
                ret |-> makeReq(newProjectData(project1), <<RowDataOf(1, v, row)>>)]
    /\ UNCHANGED <<opts, MaxTimeSeriesPerUpload, projDataMap, pds, mu, clientClosed, callers,
                   closer, uploads, errRds, nextRd, rowDatas>>

\* ------------------------------------------------------- NewStatsExporter
\* what newMetricClient may return as its error: nil or a failure
clientError == "clientError"
NewMetricClientErrs == {"nil", clientError}

\* a nil *StatsExporter
NilExporter == [nil |-> TRUE, opts |-> Options("nil", << >>, <<>>), client |-> "nil",
                projDataMap |-> << >>, getProjectID |-> "nil"]

\* the exporter is built and returned although the client could not be made
newStatsExporterAnyway(o, clientErr) ==
    [e |-> [nil |-> FALSE, opts |-> o, client |-> "nil", projDataMap |-> << >>,
            getProjectID |-> IF o.GetProjectID # "nil" THEN "opts" ELSE "default"],
     err |-> IF clientErr # "nil"
             THEN <<"failed to create a metric client", clientErr>>
             ELSE <<>>]

\* NewStatsExporter(ctx, opts) when newMetricClient returns clientErr: the
\* exporter (or nil) and the error (<<>> for nil) it returns
newStatsExporter(o, clientErr) ==
    IF clientErr # "nil"
    THEN [e |-> NilExporter, err |-> <<"failed to create a metric client", clientErr>>]
    ELSE [e |-> [nil |-> FALSE, opts |-> o, client |-> "client", projDataMap |-> << >>,
                 getProjectID |-> IF o.GetProjectID # "nil" THEN "opts" ELSE "default"],
          err |-> <<>>]

\* the options NewStatsExporter is called with
NewOptions ==
    {Options(g, d, u) : g \in {"nil", "set"}, d \in DefaultLabelMaps, u \in UnexportedLists}

\* NewStatsExporter(ctx, o) is called and returns
NewStatsExporter(o, clientErr) ==
    /\ call.fn = "none"
    /\ opts = Options("set", << >>, <<>>)
    /\ call' = [fn |-> "NewStatsExporter", opts |-> o, clientErr |-> clientErr,
                ret |-> newStatsExporter(o, clientErr)]
    /\ UNCHANGED <<opts, MaxTimeSeriesPerUpload, projDataMap, pds, mu, clientClosed, callers,
                   closer, uploads, errRds, nextRd, rowDatas>>

\* ----------------------------------------------------------------- ConvSpec
\* an exporter made with any default and unexported labels, whose conversion
\* functions are called on any arguments
ConvInit ==
    /\ opts \in {Options("set", d, u) : d \in DefaultLabelMaps, u \in UnexportedLists}
    /\ call = NoCall
    /\ MaxTimeSeriesPerUpload = SeriesLimit
    /\ projDataMap = << >>
    /\ pds = <<>>
    /\ mu = "free"
    /\ clientClosed = FALSE
    /\ callers = [c \in Callers |-> Idle]
    /\ closer = [pc |-> "idle", todo |-> {}, cur |-> 0, err |-> "nil"]
    /\ uploads = <<>>
    /\ errRds = <<>>
    /\ nextRd = [c \in Callers |-> 0]
    /\ rowDatas = {}

ConvNext ==
    \/ \E tags \in TagLists : MakeLabels(tags)
    \/ \E v \in PointViews, row \in PointRows, start \in 0..MaxTime, end \in 0..MaxTime :
          NewPoint(v, row, start, end)
    \/ \E vd \in PointViews, r \in PointRows : NewTypedValue(vd, r)
    \/ \E v \in PointViews, row \in PointRows : MakeReq(v, row)
    \/ \E tags \in TagLists, projKey \in LabelKeys : GetProjName(tags, projKey)
    \/ \E o \in NewOptions, clientErr \in NewMetricClientErrs : NewStatsExporter(o, clientErr)

ConvSpec == ConvInit /\ [][ConvNext]_vars

\* ==================================================================== claims
\* ------------------------------------------------------------------ helpers
\* occurrences of x in the list s
Count(x, s) == Cardinality({i \in 1..Len(s) : s[i] = x})

\* occurrences of rd in the row lists (.rds) of the records of s
Occ(rd, s) ==
    Cardinality({p \in UNION {{<<i, j>> : j \in 1..Len(s[i].rds)} : i \in 1..Len(s)} :
                    s[p[1]].rds[p[2]] = rd})

RECURSIVE Flatten(_)
Flatten(ss) == IF Len(ss) = 0 THEN <<>> ELSE Head(ss) \o Flatten(Tail(ss))

\* the row lists of the requests upload u has issued, in issue order
ReqRds(u) == [i \in 1..Len(u.reqs) |-> u.reqs[i].rds]

\* the values of the series of a request, as checkMetricClient reads them
SeriesValues(req) == [j \in 1..Len(req.TimeSeries) |-> req.TimeSeries[j].Point.Value.v]

Converts(rd) == newPoint(rd.View, rd.Row, rd.Start, rd.End).Value.kind # "nil"
HasResource(rd) == makeResource(rd).err = "nil"
Valid(rd) == Converts(rd) /\ HasResource(rd)
ValidRows(rds) == SelectSeq(rds, Valid)

CeilDiv(n, m) == (n + m - 1) \div m

RpcFailed(q) == q.result \notin {"nil", "inflight"}
RpcMsg == "RPC call to create time series failed for project"
IsRpcErr(e) == e.msg = RpcMsg

\* uploadRowData run to its end on rds when every call returns at once: the
\* row lists of the requests it issues
RECURSIVE RunReqs(_, _)
RunReqs(pd, rds) ==
    IF Len(rds) = 0
    THEN <<>>
    ELSE LET r == makeReq(pd, rds)
         IN  (IF r.req.nil THEN <<>> ELSE <<r.reqRds>>) \o RunReqs(pd, r.remainingRds)

\* ... and the onError calls makeReq makes on the way
RECURSIVE RunErrs(_, _)
RunErrs(pd, rds) ==
    IF Len(rds) = 0
    THEN <<>>
    ELSE LET r == makeReq(pd, rds) IN r.errs \o RunErrs(pd, r.remainingRds)

Done(t) == uploads[t].pc = "done"

\* ---------------------------------------------------------------------- C1
\* exportRowData has returned for rd
Returned(rd) == \A c \in Callers : ~(callers[c].pc = "add" /\ callers[c].rd = rd)

\* C1: a row ingested through ExportView whose classification returns
\* project P without error is passed exactly once to Add of P's bundler and
\* to no other project's; a row whose classification fails is passed to
\* none.  The pending rows of a bundler and every bundle handed to
\* uploadRowData hold rows of that project only.
C1_RoutedToOneProject ==
    /\ \A P \in DOMAIN projDataMap : pds[projDataMap[P]].projectID = P
    /\ \A rd \in rowDatas :
         LET g == getProjectID(rd)
         IN  IF Returned(rd) /\ g.err = "nil"
             THEN /\ g.projID \in DOMAIN projDataMap
                  /\ \A p \in 1..Len(pds) :
                       Count(rd, pds[p].rowDataArr) = IF p = projDataMap[g.projID] THEN 1 ELSE 0
             ELSE \A p \in 1..Len(pds) : Count(rd, pds[p].rowDataArr) = 0
    /\ \A p \in 1..Len(pds) : \A i \in 1..Len(pds[p].bndler) :
         getProjectID(pds[p].bndler[i]) = [projID |-> pds[p].projectID, err |-> "nil"]
    /\ \A t \in 1..Len(uploads) : \A i \in 1..Len(uploads[t].bundle) :
         getProjectID(uploads[t].bundle[i]) =
             [projID |-> pds[uploads[t].pd].projectID, err |-> "nil"]

\* rows of two projects have been ingested and each sits in its own bundler
C1_Witness ==
    /\ \A c \in Callers : callers[c].pc = "idle"
    /\ {project1, project2} \subseteq DOMAIN projDataMap
    /\ Len(pds[projDataMap[project1]].rowDataArr) = 1
    /\ Len(pds[projDataMap[project2]].rowDataArr) = 1

\* ---------------------------------------------------------------------- C2
\* C2: when uploadRowData has finished a bundle of N rows that all convert
\* and all get a resource, it has issued exactly ceil(N/M) requests for
\* M = MaxTimeSeriesPerUpload, each with at most M series, and the requests
\* in issue order are consecutive segments of the bundle: joined they are
\* the bundle, row by row and value by value.
C2_Chunking ==
    \A t \in 1..Len(uploads) :
        LET u == uploads[t]
        IN  (Done(t) /\ \A k \in 1..Len(u.bundle) : Valid(u.bundle[k])) =>
                /\ Len(u.reqs) = CeilDiv(Len(u.bundle), MaxTimeSeriesPerUpload)
                /\ \A i \in 1..Len(u.reqs) :
                     /\ Len(u.reqs[i].req.TimeSeries) <= MaxTimeSeriesPerUpload
                     /\ Len(u.reqs[i].req.TimeSeries) >= 1
                /\ Flatten(ReqRds(u)) = u.bundle
                /\ Flatten([i \in 1..Len(u.reqs) |-> SeriesValues(u.reqs[i].req)])
                     = [k \in 1..Len(u.bundle) |-> Int64Of(u.bundle[k].Row.Value)]

\* a bundle longer than the limit and not a multiple of it was uploaded
C2_Witness ==
    \E t \in 1..Len(uploads) :
        LET u == uploads[t]
        IN  /\ Done(t)
            /\ \A k \in 1..Len(u.bundle) : Valid(u.bundle[k])
            /\ MaxTimeSeriesPerUpload > 1
            /\ Len(u.bundle) > MaxTimeSeriesPerUpload
            /\ Len(u.bundle) % MaxTimeSeriesPerUpload # 0
            /\ Len(u.reqs) > 1

\* ---------------------------------------------------------------------- C3
\* C3: when uploadRowData has finished a bundle, each of its rows is either
\* in exactly one request, which succeeded, and in no error report, or in
\* exactly one error report and in no request that succeeded: the report of
\* its failed conversion or of its failed resource (then it is in no request
\* at all) or the report of the one failed request that held it.
C3_SentOrReportedOnce ==
    \A t \in 1..Len(uploads) :
        LET u == uploads[t]
            okReqs == SelectSeq(u.reqs, LAMBDA q : q.result = "nil")
            rpcErrs == SelectSeq(u.errs, IsRpcErr)
            rowErrs == SelectSeq(u.errs, LAMBDA e : ~IsRpcErr(e))
        IN  Done(t) =>
                \A k \in 1..Len(u.bundle) :
                    LET rd == u.bundle[k]
                    IN  \/ /\ Occ(rd, u.reqs) = 1
                           /\ Occ(rd, okReqs) = 1
                           /\ Occ(rd, u.errs) = 0
                        \/ /\ Occ(rd, u.errs) = 1
                           /\ Occ(rd, rowErrs) = 1
                           /\ Occ(rd, u.reqs) = 0
                        \/ /\ Occ(rd, u.errs) = 1
                           /\ Occ(rd, rpcErrs) = 1
                           /\ Occ(rd, u.reqs) = 1
                           /\ Occ(rd, okReqs) = 0

\* a finished bundle with a row of each fate: sent, failed conversion,
\* failed resource, in a failed request
C3_Witness ==
    \E t \in 1..Len(uploads) :
        LET u == uploads[t]
        IN  /\ Done(t)
            /\ \E q \in Range(u.reqs) : q.result = "nil"
            /\ \E q \in Range(u.reqs) : RpcFailed(q)
            /\ \E rd \in Range(u.bundle) : ~Converts(rd)
            /\ \E rd \in Range(u.bundle) : Converts(rd) /\ ~HasResource(rd)

\* ---------------------------------------------------------------------- C4
\* C4: every CreateTimeSeries request carries at most
\* MaxTimeSeriesPerUpload series, whatever rows of the bundle convert, fail
\* to convert or fail to get a resource.
C4_RequestWithinLimit ==
    \A t \in 1..Len(uploads) : \A i \in 1..Len(uploads[t].reqs) :
        Len(uploads[t].reqs[i].req.TimeSeries) <= MaxTimeSeriesPerUpload

\* a full request was cut from a bundle that held failing rows and more
\* valid rows than the limit
C4_Witness ==
    \E t \in 1..Len(uploads) :
        LET u == uploads[t]
        IN  /\ Len(ValidRows(u.bundle)) > MaxTimeSeriesPerUpload
            /\ Len(ValidRows(u.bundle)) < Len(u.bundle)
            /\ \E q \in Range(u.reqs) : Len(q.req.TimeSeries) = MaxTimeSeriesPerUpload

\* ---------------------------------------------------------------------- C5
\* C5: the failed requests of an upload and its "RPC call ... failed"
\* reports correspond one to one, in order: the k-th report carries the
\* project, the cause and exactly the rows of the k-th failed request, in
\* request order.  A failure changes nothing in what follows: the finished
\* upload has issued the requests it issues when every call succeeds.
C5_FailedRequestReported ==
    \A t \in 1..Len(uploads) :
        LET u == uploads[t]
            failed == SelectSeq(u.reqs, RpcFailed)
            rpcErrs == SelectSeq(u.errs, IsRpcErr)
        IN  /\ Len(rpcErrs) = Len(failed)
            /\ \A k \in 1..Len(failed) :
                 rpcErrs[k] = ErrRd(RpcMsg, "", failed[k].result, pds[u.pd].projectID,
                                    failed[k].rds)
            /\ Done(t) => ReqRds(u) = RunReqs(pds[u.pd], u.bundle)

\* a finished upload whose first request failed and whose second succeeded
C5_Witness ==
    \E t \in 1..Len(uploads) :
        LET u == uploads[t]
        IN  /\ Done(t)
            /\ Len(u.reqs) >= 2
            /\ RpcFailed(u.reqs[1])
            /\ u.reqs[2].result = "nil"
            /\ Len(u.reqs[1].rds) >= 2

\* ---------------------------------------------------------------------- C6
\* C6: when uploadRowData has finished a bundle that holds a row without a
\* point value, that row is in exactly one report, "inconsistent data found
\* in view <its view>" with that row alone, and in no request; the requests
\* hold the valid rows of the bundle, all of them, in order, and they are
\* one request when the valid rows fit under the limit.
C6_InconsistentRowReported ==
    \A t \in 1..Len(uploads) :
        LET u == uploads[t]
            valid == ValidRows(u.bundle)
        IN  (Done(t) /\ \E k \in 1..Len(u.bundle) : ~Converts(u.bundle[k])) =>
                /\ \A k \in 1..Len(u.bundle) :
                     LET rd == u.bundle[k]
                     IN  ~Converts(rd) =>
                            /\ Occ(rd, u.errs) = 1
                            /\ Count(ErrRd("inconsistent data found in view", rd.View.Name,
                                           "nil", "", <<rd>>), u.errs) = 1
                            /\ Occ(rd, u.reqs) = 0
                /\ Flatten(ReqRds(u)) = valid
                /\ (0 < Len(valid) /\ Len(valid) <= MaxTimeSeriesPerUpload) => Len(u.reqs) = 1

\* row 2 of a bundle of at least three has no value and the others went out
\* in one request
C6_Witness ==
    \E t \in 1..Len(uploads) :
        LET u == uploads[t]
        IN  /\ Done(t)
            /\ Len(u.bundle) >= 3
            /\ ~Converts(u.bundle[2])
            /\ \A k \in 1..Len(u.bundle) : k # 2 => Valid(u.bundle[k])
            /\ Len(u.reqs) = 1
            /\ Len(u.reqs[1].rds) = Len(u.bundle) - 1

\* ---------------------------------------------------------------------- C7
\* the rows of rds but those the resource callback fails for
WithResource(rds) == SelectSeq(rds, LAMBDA rd : ~Converts(rd) \/ HasResource(rd))

\* C7: when uploadRowData has finished a bundle, a row that converts and
\* for which the resource callback returned an error is in exactly one
\* report, "failed to construct resource of view <its view>: <the error>"
\* with that row alone, and in no request; the requests and the other
\* reports are those of the bundle with these rows taken out.
C7_ResourceFailureReported ==
    \A t \in 1..Len(uploads) :
        LET u == uploads[t]
            isRes(e) == e.msg = "failed to construct resource of view"
        IN  Done(t) =>
                /\ \A k \in 1..Len(u.bundle) :
                     LET rd == u.bundle[k]
                     IN  (Converts(rd) /\ ~HasResource(rd)) =>
                            /\ Occ(rd, u.errs) = 1
                            /\ Count(ErrRd("failed to construct resource of view", rd.View.Name,
                                           makeResource(rd).err, "", <<rd>>), u.errs) = 1
                            /\ Occ(rd, u.reqs) = 0
                /\ ReqRds(u) = RunReqs(pds[u.pd], WithResource(u.bundle))
                /\ SelectSeq(u.errs, LAMBDA e : ~isRes(e) /\ ~IsRpcErr(e))
                     = RunErrs(pds[u.pd], WithResource(u.bundle))

\* a finished bundle where a row without resource sits between valid rows
\* that make a full request and more
C7_Witness ==
    \E t \in 1..Len(uploads) :
        LET u == uploads[t]
        IN  /\ Done(t)
            /\ Len(u.bundle) >= 3
            /\ Valid(u.bundle[1])
            /\ Converts(u.bundle[2]) /\ ~HasResource(u.bundle[2])
            /\ Len(ValidRows(u.bundle)) > MaxTimeSeriesPerUpload
            /\ Len(u.reqs) >= 2

\* ---------------------------------------------------------------------- C8
\* every place a row can be held or reported
Buffered(rd) ==
    \/ \E p \in 1..Len(pds) : rd \in Range(pds[p].bndler) \/ rd \in Range(pds[p].rowDataArr)
    \/ \E t \in 1..Len(uploads) : rd \in Range(uploads[t].bundle) \/ Occ(rd, uploads[t].reqs) > 0

Reports(rd) == Occ(rd, errRds) + Cardinality({t \in 1..Len(uploads) : Occ(rd, uploads[t].errs) > 0})

\* each project of the map is the project of a row classified without error
ProjectsJustified ==
    /\ Len(pds) = Cardinality(DOMAIN projDataMap)
    /\ \A P \in DOMAIN projDataMap :
         \E rd \in rowDatas : getProjectID(rd) = [projID |-> P, err |-> "nil"]

\* C8: a row whose classification returns RowDataNotApplicableError is
\* dropped silently: it is in no onError call, in no bundler, bundle or
\* request, and no projectData exists but for rows classified without error.
C8_NotApplicableSilent ==
    /\ \A rd \in rowDatas :
         getProjectID(rd).err = NotApplicable => Reports(rd) = 0 /\ ~Buffered(rd)
    /\ (\E rd \in rowDatas : getProjectID(rd).err = NotApplicable) => ProjectsJustified

\* only a not applicable row was exported: nothing was created or reported
C8_Witness ==
    /\ opts.GetProjectID = "set"
    /\ \E rd \in rowDatas : getProjectID(rd).err = NotApplicable
    /\ \A rd \in rowDatas : getProjectID(rd).err = NotApplicable
    /\ \A c \in Callers : callers[c].pc = "idle"
    /\ DOMAIN projDataMap = {}
    /\ errRds = <<>>

\* ---------------------------------------------------------------------- C9
ClassifyFailed(rd) == getProjectID(rd).err \notin {"nil", NotApplicable}

\* C9: a row whose classification returns another error is in exactly one
\* onError call, "failed to get project ID on row data with view <its
\* view>: <the error>" with that row alone; it is in no bundler, bundle or
\* request, no projectData exists but for rows classified without error, and
\* the loop of ExportView can read its next row.
C9_ClassifyErrorReported ==
    /\ \A rd \in rowDatas :
         ClassifyFailed(rd) =>
            /\ Reports(rd) = 1
            /\ Count(ErrRd("failed to get project ID on row data with view", rd.View.Name,
                           getProjectID(rd).err, "", <<rd>>), errRds) = 1
            /\ ~Buffered(rd)
    /\ (\E rd \in rowDatas : ClassifyFailed(rd)) =>
         /\ ProjectsJustified
         /\ \A c \in Callers :
              (callers[c].pc = "row" /\ ~Panicked) =>
                 ENABLED (\E row \in RowsOf(callers[c].View) : ExportRowData(c, row))

\* the first row of a snapshot failed classification and a later row of the
\* same caller reached a bundler
C9_Witness ==
    \E c \in Callers :
        /\ \E rd \in rowDatas : rd.id = <<c, 1>> /\ ClassifyFailed(rd)
        /\ \E p \in 1..Len(pds) : \E rd \in Range(pds[p].rowDataArr) : rd.id = <<c, 2>>

\* --------------------------------------------------------------------- C10
\* the projectData whose Flush has returned to Close
Flushed ==
    IF closer.pc = "idle"
    THEN {}
    ELSE {projDataMap[P] : P \in (DOMAIN projDataMap) \ closer.todo} \ {closer.cur}

\* rd was put in a request while the client was open, or reported, by u
Handed(rd, u) ==
    \/ \E q \in Range(u.reqs) : rd \in Range(q.rds) /\ ~q.closed /\ q.result # "inflight"
    \/ Occ(rd, u.errs) > 0

\* C10: when Flush has returned for a project, its bundler holds no pending
\* row and every bundle its handler was given is finished, each row of it
\* put in a request that has returned or reported; Close unlocks and
\* closes the client only when Flush has returned for every project of the
\* map, so when the client is closed no accepted row is left.
C10_CloseDrains ==
    /\ \A p \in Flushed :
         /\ pds[p].bndler = <<>>
         /\ \A t \in 1..Len(uploads) :
              (uploads[t].pd = p /\ uploads[t].kind # "go") =>
                 /\ Done(t)
                 /\ \A rd \in Range(uploads[t].bundle) : Handed(rd, uploads[t])
    /\ closer.pc \in {"unlocked", "done"} => Flushed = {projDataMap[P] : P \in DOMAIN projDataMap}
    /\ clientClosed => closer.pc = "done"

\* Close has returned after Flush handed over rows that were pending in the
\* bundlers of two projects
C10_Witness ==
    /\ clientClosed
    /\ \E t1, t2 \in 1..Len(uploads) :
         /\ uploads[t1].pd # uploads[t2].pd
         /\ uploads[t1].kind = "flush" /\ uploads[t2].kind = "flush"
         /\ Len(uploads[t1].reqs) > 0

\* --------------------------------------------------------------------- C11
\* C11: every step of Close keeps the order lock, flushes, unlock, client
\* close.  A Flush is called and returns with e.mu held by Close and the
\* client open; e.mu is released by Close only when no project of the map is
\* left to flush and no Flush is in progress; the client is closed only after
\* that release; and once the client is closed Close calls nothing more.
C11_CloseOrder ==
    [][/\ (closer.pc # "flushing" /\ closer'.pc = "flushing") =>
            /\ mu = "Close" /\ mu' = "Close"
            /\ ~clientClosed /\ ~clientClosed'
       /\ closer.pc = "flushing" =>
            /\ mu = "Close" /\ mu' = "Close"
            /\ ~clientClosed'
       /\ (mu = "Close" /\ mu' # "Close") =>
            /\ closer.pc = "locked" /\ closer.todo = {}
            /\ ~clientClosed'
       /\ (~clientClosed /\ clientClosed') =>
            /\ closer.pc = "unlocked" /\ closer.todo = {}
            /\ mu = "free"
            /\ \A P \in DOMAIN projDataMap : flushDone(projDataMap[P])
       /\ clientClosed => (closer' = closer /\ mu' = mu /\ clientClosed')
      ]_vars

\* Close has returned after flushing two projects, one of whose flushed
\* requests failed
C11_Witness ==
    /\ closer.pc = "done"
    /\ mu = "free"
    /\ Cardinality(DOMAIN projDataMap) = 2
    /\ \A P \in DOMAIN projDataMap :
         \E t \in 1..Len(uploads) : uploads[t].pd = projDataMap[P] /\ uploads[t].kind = "flush"
    /\ \E t \in 1..Len(uploads) :
         uploads[t].kind = "flush" /\ \E q \in Range(uploads[t].reqs) : RpcFailed(q)

\* --------------------------------------------------------------------- C12
\* Add was called with rd and answered ErrOversizedItem
Oversized(rd) ==
    /\ rd.Row.add = ErrOversizedItem
    /\ \E p \in 1..Len(pds) : rd \in Range(pds[p].rowDataArr)

\* the invocations go pd.uploadRowData(rd) started for rd
DirectUploads(rd) ==
    {t \in 1..Len(uploads) : uploads[t].kind = "go" /\ rd \in Range(uploads[t].bundle)}

\* C12: a row Add answered ErrOversizedItem for is in no bundler's pending
\* rows and in no bundle of a handler; exactly one detached uploadRowData
\* was started for it, on that row alone and on its project's projectData,
\* and exportRowData has returned whatever that upload has done so far.  Once
\* that upload has taken its first step the row is in one request named
\* after its project or in one error report.  Nothing else is uploaded that
\* way.
C12_OversizedDirectUpload ==
    /\ \A rd \in rowDatas :
         Oversized(rd) =>
            /\ Returned(rd)
            /\ \A p \in 1..Len(pds) : rd \notin Range(pds[p].bndler)
            /\ \A t \in 1..Len(uploads) :
                 rd \in Range(uploads[t].bundle) => uploads[t].kind = "go"
            /\ Cardinality(DirectUploads(rd)) = 1
            /\ \A t \in DirectUploads(rd) :
                 LET u == uploads[t]
                 IN  /\ u.bundle = <<rd>>
                     /\ u.pd = projDataMap[getProjectID(rd).projID]
                     /\ \A q \in Range(u.reqs) :
                          /\ q.rds = <<rd>>
                          /\ q.req.Name = <<"projects", getProjectID(rd).projID>>
                     /\ u.pc # "run" => /\ Occ(rd, u.reqs) + Occ(rd, u.errs) >= 1
                                        /\ Occ(rd, u.reqs) <= 1
                                        /\ Occ(rd, u.errs) <= 1
    /\ \A t \in 1..Len(uploads) :
         uploads[t].kind = "go" =>
            /\ Len(uploads[t].bundle) = 1
            /\ Oversized(uploads[t].bundle[1])

\* ExportView has returned and the detached upload of its oversized row has
\* not yet built its request
C12_Witness ==
    /\ \A c \in Callers : callers[c].pc = "idle"
    /\ ~clientClosed
    /\ \E rd \in rowDatas :
         /\ Oversized(rd)
         /\ \E t \in DirectUploads(rd) : uploads[t].pc = "run" /\ uploads[t].reqs = <<>>

\* --------------------------------------------------------------------- C13
\* the detached uploads that have not finished
Detached == {t \in 1..Len(uploads) : uploads[t].kind = "go" /\ uploads[t].pc # "done"}

\* every invocation of the handler of the bundler of projectData p has returned
HandlersDone(p) ==
    \A t \in 1..Len(uploads) :
        (uploads[t].pd = p /\ uploads[t].kind # "go") => Done(t)

\* C13: no step of Close waits for a detached uploadRowData.  Whatever
\* detached uploads are unfinished, the Flush Close is in returns as soon as
\* the handler invocations of that bundler have returned, Close unlocks as
\* soon as no project is left, and the client is closed as soon as Close has
\* unlocked; a detached upload that has not begun may begin after the client
\* is closed.  (All of it while the process lives.)
C13_CloseDoesNotJoin ==
    ~Panicked =>
        /\ (closer.pc = "flushing" /\ HandlersDone(closer.cur)) => ENABLED CloseFlushReturn
        /\ (closer.pc = "locked" /\ closer.todo = {}) => ENABLED CloseUnlock
        /\ closer.pc = "unlocked" => ENABLED ClientClose("nil")
        /\ \A t \in Detached :
             uploads[t].pc = "run" => ENABLED UploadMakeReq(t)

\* Close has returned and the client is closed while a detached upload has
\* not issued its request
C13_Witness ==
    /\ closer.pc = "done"
    /\ clientClosed
    /\ \E t \in Detached : uploads[t].pc = "run" /\ uploads[t].reqs = <<>>

\* --------------------------------------------------------------------- C14
\* the projects with an upload waiting in CreateTimeSeries
InRpc == {uploads[t].pd : t \in {x \in 1..Len(uploads) : uploads[x].pc = "rpc"}}

\* C14: while an uploadRowData of one project waits in CreateTimeSeries, an
\* ExportView call in progress can take its next step for any row of another
\* project: the row it reads next is classified and its projectData found or
\* created (e.mu is free), and the Add it has called returns.
C14_UploadDoesNotBlockIngestion ==
    ~Panicked => \A p \in InRpc : \A c \in Callers :
        /\ callers[c].pc = "row" =>
              \A row \in RowsOf(callers[c].View) :
                  LET g == getProjectID([Row |-> row])
                  IN  (g.err = "nil" /\ g.projID # pds[p].projectID) =>
                          ENABLED ExportRowData(c, row)
        /\ (callers[c].pc = "add" /\ callers[c].pd # p) => ENABLED BundlerAdd(c)

\* an upload of one project waits in CreateTimeSeries while ExportView has
\* classified a row of another project, found its projectData and called Add
C14_Witness ==
    \E t \in 1..Len(uploads) : \E c \in Callers :
        /\ uploads[t].pc = "rpc"
        /\ callers[c].pc = "add"
        /\ callers[c].pd # uploads[t].pd
        /\ ENABLED BundlerAdd(c)

\* --------------------------------------------------------------------- C15
\* C15: at every moment of an upload each row of the bundle is in at most
\* one of the requests issued so far, a row of a request issued (failed or
\* not) is not among the rows still to be processed, and the requests are
\* never more than the rows processed: no request and no row is sent twice.
C15_NoResubmission ==
    \A t \in 1..Len(uploads) :
        LET u == uploads[t]
        IN  /\ \A k \in 1..Len(u.bundle) : Occ(u.bundle[k], u.reqs) <= 1
            /\ \A i, j \in 1..Len(u.reqs) :
                 i # j => /\ Range(u.reqs[i].rds) \cap Range(u.reqs[j].rds) = {}
                          /\ u.reqs[i].req # u.reqs[j].req \/ u.reqs[i].rds # u.reqs[j].rds
            /\ \A i \in 1..Len(u.reqs) :
                 /\ Range(u.reqs[i].rds) \subseteq Range(u.bundle)
                 /\ Range(u.reqs[i].rds) \cap Range(u.rds) = {}
                 /\ Len(u.reqs[i].rds) >= 1
            /\ Len(u.reqs) <= Len(u.bundle) - Len(u.rds)

\* every request of a finished upload failed, and there were as many
\* requests as the valid rows need and no more
C15_Witness ==
    \E t \in 1..Len(uploads) :
        LET u == uploads[t]
        IN  /\ Done(t)
            /\ Len(u.reqs) >= 2
            /\ \A q \in Range(u.reqs) : RpcFailed(q)
            /\ Len(u.reqs) = CeilDiv(Len(ValidRows(u.bundle)), MaxTimeSeriesPerUpload)

\* --------------------------------------------------------------------- C16
\* every onError call made so far, by exportRowData and by the uploads
OnErrorCalls == Range(errRds) \cup UNION {Range(uploads[t].errs) : t \in 1..Len(uploads)}

\* C16: every onError call made so far passed at least one RowData, and each
\* RowData passed is one ExportView built; the calls of exportRowData and of
\* makeReq pass exactly one, the call for a failed request passes the rows
\* of that request.
C16_OnErrorHasRowData ==
    \A e \in OnErrorCalls :
        /\ Len(e.rds) >= 1
        /\ Range(e.rds) \subseteq rowDatas
        /\ ~IsRpcErr(e) => Len(e.rds) = 1
        /\ IsRpcErr(e) => Len(e.rds) <= MaxTimeSeriesPerUpload

\* a bundle of two rows was uploaded: the resource of one failed, and the
\* request with the other failed
C16_Witness ==
    \E t \in 1..Len(uploads) :
        /\ Done(t)
        /\ Len(uploads[t].bundle) = 2
        /\ \E e \in Range(uploads[t].errs) : e.msg = "failed to construct resource of view"
        /\ \E e \in Range(uploads[t].errs) : IsRpcErr(e)

\* --------------------------------------------------------------------- C17
\* the rows makeReq has called e.makeResource on so far: the rows an upload
\* has examined that have a point value
MakeResourceCalls ==
    UNION {{uploads[t].bundle[k] : k \in {i \in 1..(Len(uploads[t].bundle) - Len(uploads[t].rds)) :
                                             Converts(uploads[t].bundle[i])}} :
           t \in 1..Len(uploads)}

\* C17: every row e.makeResource has been called on is a row ExportView
\* built for which getProjectID returned a project ID and no error; a row
\* that was not applicable or whose classification failed is none of them.
C17_MakeResourceOnlyOnClassified ==
    /\ \A rd \in MakeResourceCalls :
         /\ rd \in rowDatas
         /\ getProjectID(rd).err = "nil"
         /\ getProjectID(rd).projID \in DOMAIN projDataMap
    /\ \A rd \in rowDatas :
         getProjectID(rd).err # "nil" => rd \notin MakeResourceCalls

\* the callback was called, and returned an error, for a classified row
\* while another row of the snapshot was not applicable
C17_Witness ==
    /\ \E rd \in MakeResourceCalls : makeResource(rd).err # "nil"
    /\ \E rd \in rowDatas : getProjectID(rd).err = NotApplicable

\* --------------------------------------------------------------------- C18
\* C18: an exporter made with Options.GetProjectID not set has, whatever
\* ExportView calls were made, an empty project map and no projectData, no
\* row passed to a bundler, no upload and no request, and no onError call.
C18_DefaultDropsEverything ==
    opts.GetProjectID = "nil" =>
        /\ DOMAIN projDataMap = {}
        /\ pds = <<>>
        /\ uploads = <<>>
        /\ errRds = <<>>
        /\ \A c \in Callers : callers[c].pc # "add"
        /\ \A rd \in rowDatas : getProjectID(rd).err = NotApplicable

\* two snapshots, of each view, were exported to such an exporter and the
\* calls have returned
C18_Witness ==
    /\ opts.GetProjectID = "nil"
    /\ \A c \in Callers : callers[c].pc = "idle"
    /\ \E r1, r2 \in rowDatas : r1.View = view1 /\ r2.View = view2 /\ r1.id[1] = r2.id[1]

\* --------------------------------------------------------------------- C19
\* the keys of a tag list
TagKeys(tags) == {tags[i].Key : i \in 1..Len(tags)}

\* the value of the last tag of the list with key k
TagValue(tags, k) ==
    tags[CHOOSE i \in 1..Len(tags) :
            /\ tags[i].Key = k
            /\ \A j \in (i + 1)..Len(tags) : tags[j].Key # k].Value

\* C19: the map makeLabels returns has the keys of the default labels and of
\* the tags but those listed as unexported; a key of a tag has the tag's
\* value (the last one's if several tags have the key), whether or not a
\* default label has that key, and any other key has its default value.
C19_MakeLabels ==
    call.fn = "makeLabels" =>
        LET D == opts.DefaultLabels
            T == call.tags
            U == Range(opts.UnexportedLabels)
            L == call.labels
        IN  /\ DOMAIN L = (DOMAIN D \cup TagKeys(T)) \ U
            /\ \A k \in DOMAIN L :
                 L[k] = IF k \in TagKeys(T) THEN TagValue(T, k) ELSE D[k]

\* one key is a default label and a tag and comes out with the tag's value,
\* one unexported key came from the default labels and one from the tags
C19_Witness ==
    /\ call.fn = "makeLabels"
    /\ LET D == opts.DefaultLabels
           T == call.tags
           U == Range(opts.UnexportedLabels)
           L == call.labels
       IN  /\ \E k \in DOMAIN L : k \in DOMAIN D /\ k \in TagKeys(T) /\ L[k] # D[k]
           /\ \E k \in U : k \in DOMAIN D /\ k \notin TagKeys(T)
           /\ \E k \in U : k \in TagKeys(T) /\ k \notin DOMAIN D

\* --------------------------------------------------------------------- C20
\* the time a Timestamp stands for
TimeOf(ts) == ts.Seconds * TicksPerSecond + ts.Nanos

\* C20: the point newPoint returns has no StartTime exactly when the view's
\* aggregation type is AggTypeLastValue, whatever the row holds; its EndTime
\* is the end of the window, and for every other aggregation type its
\* StartTime is the start of the window.
C20_GaugeOrCumulative ==
    call.fn = "newPoint" =>
        LET pt == call.point
        IN  /\ pt.StartTime.nil <=> call.v.Aggregation = "AggTypeLastValue"
            /\ ~pt.EndTime.nil
            /\ TimeOf(pt.EndTime) = call.end
            /\ pt.EndTime.Nanos \in 0..(TicksPerSecond - 1)
            /\ ~pt.StartTime.nil =>
                  /\ TimeOf(pt.StartTime) = call.start
                  /\ pt.StartTime.Nanos \in 0..(TicksPerSecond - 1)
            /\ pt.Value = newTypedValue(call.v, call.row)

\* a last value view whose row holds sum data, with a window that starts
\* and ends at different times within a second: the point has only the end
C20_Witness ==
    /\ call.fn = "newPoint"
    /\ call.v.Aggregation = "AggTypeLastValue"
    /\ call.row.Data = "SumData"
    /\ call.start # call.end
    /\ call.start # 0
    /\ call.point.StartTime.nil
    /\ call.point.EndTime.Nanos # 0

\* --------------------------------------------------------------------- C21
\* upload t is uploadRowData on the two rows of TestMakeResource: view1's
\* rows valued 1 and 2, in that order
IsRows12(t) ==
    LET b == uploads[t].bundle
    IN  /\ Len(b) = 2
        /\ b[1].View = view1 /\ b[1].Row = view1row1
        /\ b[2].View = view1 /\ b[2].Row = view1row2

\* the kinds of the values of the series of a request
SeriesKinds(req) == [j \in 1..Len(req.TimeSeries) |-> req.TimeSeries[j].Point.Value.kind]

\* C21 as stated: uploading view1's rows valued 1 and 2 for project1 with
\* the limit of series per request at 1 produces one request, to
\* projects/project1, with two series of integer values 1 and 2 in order.
C21_OneRequestAtLimitOne ==
    \A t \in 1..Len(uploads) :
        (Done(t) /\ IsRows12(t) /\ MaxTimeSeriesPerUpload = 1) =>
            /\ Len(uploads[t].reqs) = 1
            /\ uploads[t].reqs[1].req.Name = <<"projects", project1>>
            /\ SeriesValues(uploads[t].reqs[1].req) = <<1, 2>>
            /\ SeriesKinds(uploads[t].reqs[1].req) = <<"Int64Value", "Int64Value">>

\* C21: uploading view1's rows valued 1 and 2 for project1 produces
\* requests to projects/project1 only, whose series joined in issue order
\* are two integer values, 1 then 2; they are one request when the limit of
\* series per request is 2 or more, and two requests of one series each
\* when the limit is 1.  Neither row is reported for itself: onError is
\* called only for a request the client refused.
C21_EndToEnd ==
    \A t \in 1..Len(uploads) :
        (Done(t) /\ IsRows12(t)) =>
            LET reqs == uploads[t].reqs
            IN  /\ Len(reqs) = IF MaxTimeSeriesPerUpload >= 2 THEN 1 ELSE 2
                /\ \A i \in 1..Len(reqs) : reqs[i].req.Name = <<"projects", project1>>
                /\ Flatten([i \in 1..Len(reqs) |-> SeriesValues(reqs[i].req)]) = <<1, 2>>
                /\ Flatten([i \in 1..Len(reqs) |-> SeriesKinds(reqs[i].req)])
                     = <<"Int64Value", "Int64Value">>
                /\ \A k \in 1..Len(uploads[t].errs) : IsRpcErr(uploads[t].errs[k])

\* the two rows were uploaded in one request, as in TestMakeResource
C21_Witness ==
    \E t \in 1..Len(uploads) :
        /\ Done(t) /\ IsRows12(t)
        /\ MaxTimeSeriesPerUpload >= 2
        /\ Len(uploads[t].reqs) = 1
        /\ SeriesValues(uploads[t].reqs[1].req) = <<1, 2>>
        /\ uploads[t].reqs[1].result = "nil"

\* --------------------------------------------------------------------- C22
\* the bundles the bundler of projectData p has handed to its handler, in
\* the order they closed
HandedBundles(p) ==
    LET ts == SelectSeq([t \in 1..Len(uploads) |-> t],
                        LAMBDA t : uploads[t].pd = p /\ uploads[t].kind # "go")
    IN  [i \in 1..Len(ts) |-> uploads[ts[i]].bundle]

\* the rows Add of p's bundler has accepted, in arrival order
Accepted(p) == SelectSeq(pds[p].rowDataArr, LAMBDA rd : rd.Row.add = "nil")

Rejected(rd) ==
    /\ rd.Row.add \notin {"nil", ErrOversizedItem}
    /\ \E p \in 1..Len(pds) : rd \in Range(pds[p].rowDataArr)

\* the onError calls of exportRowData that rd is in
AddReports(rd) == SelectSeq(errRds, LAMBDA e : rd \in Range(e.rds))

\* C23: a row for which Add returned an error other than ErrOversizedItem
\* is in no bundler's pending rows, in no bundle handed to uploadRowData and
\* in no request, and onError was called exactly once for it: with that row
\* alone and the error "failed to add row data with view <its view> to
\* bundle for project <its project>: <Add's error>".
C23_AddErrorReported ==
    \A rd \in rowDatas :
        Rejected(rd) =>
            /\ Returned(rd)
            /\ \A p \in 1..Len(pds) : rd \notin Range(pds[p].bndler)
            /\ \A t \in 1..Len(uploads) :
                 /\ rd \notin Range(uploads[t].bundle)
                 /\ Occ(rd, uploads[t].reqs) = 0
                 /\ Occ(rd, uploads[t].errs) = 0
            /\ AddReports(rd) =
                 <<ErrRd("failed to add row data with view to bundle for project",
                         rd.View.Name, rd.Row.add, getProjectID(rd).projID, <<rd>>)>>

\* Add refused a row of a project whose bundler holds an accepted row
C23_Witness ==
    \E rd \in rowDatas :
        /\ Rejected(rd)
        /\ rd.Row.add = ErrOverflow
        /\ Len(AddReports(rd)) = 1
        /\ \E p \in 1..Len(pds) :
              /\ rd \in Range(pds[p].rowDataArr)
              /\ pds[p].projectID = getProjectID(rd).projID
              /\ Len(pds[p].bndler) > 0

\* --------------------------------------------------------------------- C24
\* C24: NewStatsExporter returns an error and a nil exporter when
\* newMetricClient fails, the error being "failed to create a metric
\* client: <the client's error>", and returns no error and an exporter
\* otherwise: one that holds the options and the client and whose
\* projDataMap is empty.
C24_NewStatsExporter ==
    call.fn = "NewStatsExporter" =>
        /\ (call.ret.err # <<>>) <=> (call.clientErr # "nil")
        /\ (call.ret.err # <<>>) <=> call.ret.e.nil
        /\ call.ret.err # <<>> =>
              call.ret.err = <<"failed to create a metric client", call.clientErr>>
        /\ ~call.ret.e.nil =>
              /\ DOMAIN call.ret.e.projDataMap = {}
              /\ call.ret.e.opts = call.opts
              /\ call.ret.e.client = "client"

\* the client could not be made and NewStatsExporter returned no exporter
C24_Witness ==
    /\ call.fn = "NewStatsExporter"
    /\ call.clientErr = clientError
    /\ call.ret.e.nil
    /\ call.ret.err # <<>>

\* --------------------------------------------------------------------- C25
\* C25: every request CreateTimeSeries is called with holds at least one
\* series, one for each row it was built from.  An uploadRowData that
\* has finished a bundle of which no row converts and gets a resource has
\* called CreateTimeSeries not once, and onError once per row, in bundle
\* order, with that row alone.
C25_NoEmptyRequest ==
    \A t \in 1..Len(uploads) :
        LET u == uploads[t]
        IN  /\ \A i \in 1..Len(u.reqs) :
                 /\ ~u.reqs[i].req.nil
                 /\ Len(u.reqs[i].req.TimeSeries) >= 1
                 /\ Len(u.reqs[i].req.TimeSeries) = Len(u.reqs[i].rds)
            /\ (Done(t) /\ ValidRows(u.bundle) = <<>>) =>
                 /\ u.reqs = <<>>
                 /\ [k \in 1..Len(u.errs) |-> u.errs[k].rds]
                      = [k \in 1..Len(u.bundle) |-> <<u.bundle[k]>>]
            /\ Done(t) => Len(u.reqs) <= Len(ValidRows(u.bundle))

\* uploadRowData sent the one good row of a bundle at the limit of one
\* series, then came to the end over rows that all failed, one for its
\* data and one for its resource
C25_Witness ==
    \E t \in 1..Len(uploads) :
        LET u == uploads[t]
        IN  /\ Done(t)
            /\ Len(u.bundle) >= 3
            /\ Valid(u.bundle[1])
            /\ Len(ValidRows(u.bundle)) = 1
            /\ \E k \in 2..Len(u.bundle) : ~Converts(u.bundle[k])
            /\ \E k \in 2..Len(u.bundle) : Converts(u.bundle[k]) /\ ~HasResource(u.bundle[k])
            /\ MaxTimeSeriesPerUpload = 1
            /\ Len(u.reqs) = 1
            /\ Len(u.errs) >= Len(u.bundle) - 1

\* --------------------------------------------------------------------- C26
\* one projectData per project of the map, under its own id, and every
\* exportRowData that has called getProjectData holds the one of its project
OneProjectData ==
    /\ Len(pds) = Cardinality(DOMAIN projDataMap)
    /\ \A P \in DOMAIN projDataMap :
         /\ projDataMap[P] \in 1..Len(pds)
         /\ pds[projDataMap[P]].projectID = P
    /\ \A c \in Callers :
         callers[c].pc = "add" =>
            /\ callers[c].projID \in DOMAIN projDataMap
            /\ callers[c].pd = projDataMap[callers[c].projID]
    /\ \A c, d \in Callers :
         (callers[c].pc = "add" /\ callers[d].pc = "add" /\ callers[c].projID = callers[d].projID)
            => callers[c].pd = callers[d].pd

\* a step keeps every projectData of the map in its place, and adds one only
\* for the project of the row exportRowData has just classified without error
ProjectDataKept ==
    /\ \A P \in DOMAIN projDataMap :
         /\ P \in DOMAIN projDataMap'
         /\ projDataMap'[P] = projDataMap[P]
    /\ Len(pds') >= Len(pds)
    /\ \A p \in 1..Len(pds) : pds'[p].projectID = pds[p].projectID
    /\ \A P \in DOMAIN projDataMap' \ DOMAIN projDataMap :
         /\ DOMAIN projDataMap' = DOMAIN projDataMap \cup {P}
         /\ \E c \in Callers :
               /\ callers[c].pc = "row"
               /\ callers'[c].pc = "add"
               /\ callers'[c].projID = P
               /\ callers'[c].pd = projDataMap'[P]
               /\ getProjectID(callers'[c].rd) = [projID |-> P, err |-> "nil"]
         /\ pds'[projDataMap'[P]] = newProjectData(P)

\* C26: projDataMap holds at most one projectData per project id; one is
\* made only when exportRowData has classified a row for an id not yet in
\* the map, is never replaced or removed afterwards, and all ExportView
\* calls, overlapping or not, get the same projectData (and so the same
\* bundler) for the same id.
C26_OneProjectDataPerID == [][ProjectDataKept /\ OneProjectData']_vars

\* two overlapping ExportView calls have each classified a row for the same
\* project, new to the map when the first of them came, and both are about
\* to call Add on the one projectData made for it
C26_Witness ==
    /\ Len(pds) = 1
    /\ \A c \in Callers :
         /\ callers[c].pc = "add"
         /\ callers[c].projID = pds[1].projectID
         /\ callers[c].pd = 1
    /\ pds[1].rowDataArr = <<>>

\* --------------------------------------------------------------------- C27
\* an uploadRowData is between its call of CreateTimeSeries and the return
RpcRunning == \E t \in 1..Len(uploads) : uploads[t].pc = "rpc"

\* C27 as stated: e.mu is held only around the lookup and insertion of
\* getProjectData; while it is held no Add is in progress, no Flush is in
\* progress and no uploadRowData is in CreateTimeSeries.
C27_LockOnlyAroundMap ==
    mu # "free" =>
        /\ \A c \in Callers : callers[c].pc # "add"
        /\ closer.pc # "flushing"
        /\ ~RpcRunning

\* C27: an ExportView call holds e.mu only inside getProjectData: when it
\* classifies a row (the GetProjectID callback), reports it and calls Add,
\* e.mu is not held by it.  The only other holder is Close, which holds e.mu
\* from before its first Flush until after its last: every Flush, and what
\* runs during it, runs under the lock.
C27_LockHeldOnlyByClose ==
    /\ mu \in {"free", "Close"}
    /\ mu = "Close" <=> closer.pc \in {"locked", "flushing"}
    /\ \A c \in Callers : callers[c].pc # "idle" => mu = "free"
    /\ \A t \in 1..Len(uploads) :
         (uploads[t].kind = "flush" /\ closer.pc = "flushing" /\ uploads[t].pd = closer.cur)
            => mu = "Close"

\* Close holds e.mu in a Flush whose bundle is being uploaded: MakeResource
\* was called for its row and the request is with CreateTimeSeries
C27_Witness ==
    /\ mu = "Close"
    /\ closer.pc = "flushing"
    /\ \E t \in 1..Len(uploads) :
         /\ uploads[t].kind = "flush"
         /\ uploads[t].pd = closer.cur
         /\ uploads[t].pc = "rpc"
         /\ Len(uploads[t].reqs) = 1

\* --------------------------------------------------------------------- C28
\* the requests of upload t that hold a series
SentReqs(t) == {i \in 1..Len(uploads[t].reqs) : ~uploads[t].reqs[i].req.nil}

\* C28: every request uploadRowData has built is named
\* "projects/<projectID of its projectData>"; its series are, one for one
\* and in order, those of rows of the bundle that projectData's
\* uploadRowData was given, and each such row was classified for that
\* project and passed to that projectData's bundler.  So no request holds
\* rows of two projects.
C28_RequestOfOneProject ==
    \A t \in 1..Len(uploads) :
        LET u == uploads[t]
            P == pds[u.pd].projectID
        IN  /\ projDataMap[P] = u.pd
            /\ \A rd \in Range(u.bundle) :
                  /\ getProjectID(rd) = [projID |-> P, err |-> "nil"]
                  /\ rd \in Range(pds[u.pd].rowDataArr)
            /\ \A i \in SentReqs(t) :
                  LET q == u.reqs[i]
                  IN  /\ q.req.Name = <<"projects", P>>
                      /\ Len(q.req.TimeSeries) = Len(q.rds)
                      /\ \A j \in 1..Len(q.rds) :
                            /\ q.rds[j] \in Range(u.bundle)
                            /\ getProjectID(q.rds[j]).projID = P
                            /\ q.req.TimeSeries[j].Type = q.rds[j].View.Name
                            /\ q.req.TimeSeries[j].Point =
                                  newPoint(q.rds[j].View, q.rds[j].Row, q.rds[j].Start,
                                           q.rds[j].End)

\* requests were built for two projects, each from a row of its own
C28_Witness ==
    \E t1, t2 \in 1..Len(uploads) :
        /\ pds[uploads[t1].pd].projectID = project1
        /\ pds[uploads[t2].pd].projectID = project2
        /\ SentReqs(t1) # {}
        /\ SentReqs(t2) # {}
        /\ uploads[t1].reqs[1].req.Name = <<"projects", project1>>
        /\ uploads[t2].reqs[1].req.Name = <<"projects", project2>>

\* --------------------------------------------------------------------- C29
\* C29: newTypedValue(vd, r) gives, for count data, an integer equal to the
\* count; for sum data and last value data, an integer (the value with its
\* fraction cut off) when the measure is an Int64Measure and a float
\* equal to the value when it is a Float64Measure; for distribution data, a
\* distribution with the data's count, mean, sum of squared deviations and
\* counts per bucket and the view's bucket bounds; and nil for everything
\* else: a row without data, and sum or last value data of a view whose
\* measure is neither.
C29_NewTypedValue ==
    call.fn = "newTypedValue" =>
        LET d == call.r.Data
            m == call.vd.Measure
            tv == call.value
            float == d \in {"SumData", "LastValueData"}
        IN  /\ tv.kind = "Int64Value" <=> (d = "CountData" \/ (float /\ m = "Int64Measure"))
            /\ tv.kind = "DoubleValue" <=> (float /\ m = "Float64Measure")
            /\ tv.kind = "DistributionValue" <=> d = "DistributionData"
            /\ tv.kind = "nil" <=>
                  (d \notin {"CountData", "SumData", "LastValueData", "DistributionData"}
                   \/ (float /\ m \notin {"Int64Measure", "Float64Measure"}))
            /\ tv.kind \in {"Int64Value", "DoubleValue", "DistributionValue", "nil"}
            /\ d = "CountData" => tv.v = call.r.Value
            /\ (float /\ tv.kind = "Int64Value") =>
                  /\ Float(tv.v) <= call.r.Value \/ call.r.Value < 0
                  /\ Float(tv.v) >= call.r.Value \/ call.r.Value >= 0
                  /\ Float(tv.v) - call.r.Value < FloatUnit
                  /\ call.r.Value - Float(tv.v) < FloatUnit
            /\ tv.kind = "DoubleValue" => tv.v = call.r.Value
            /\ tv.kind = "DistributionValue" =>
                  /\ tv.v.Count = call.r.Count
                  /\ tv.v.Bounds = call.vd.Buckets
                  /\ tv.v.BucketCounts = call.r.CountPerBucket
                  /\ tv.v.Mean = call.r.Mean
                  /\ tv.v.SumOfSquaredDeviation = call.r.SumOfSquaredDev

\* last value data that is not a whole number, of a view with a
\* Float64Measure: the value is given as it is
C29_Witness ==
    /\ call.fn = "newTypedValue"
    /\ call.r.Data = "LastValueData"
    /\ call.vd.Measure = "Float64Measure"
    /\ call.r.Value # Float(Int64Of(call.r.Value))
    /\ call.value = [kind |-> "DoubleValue", v |-> call.r.Value]

\* --------------------------------------------------------------------- C30
\* the RowData made so far by the ExportView calls of caller c
MadeBy(c) == {rd \in rowDatas : rd.id[1] = c}

\* one RowData for each row read, each with the view and the window of a
\* snapshot; and in the list of rows passed to a projectData's bundler, and
\* in the list of those it accepted, the rows of one caller stand in the
\* order that caller read them
RowDataInOrder ==
    /\ \A c \in Callers :
         /\ Cardinality(MadeBy(c)) = nextRd[c]
         /\ {rd.id[2] : rd \in MadeBy(c)} = 1..nextRd[c]
    /\ \A rd \in rowDatas :
         /\ rd.Start = SnapshotOf(rd.View).Start
         /\ rd.End = SnapshotOf(rd.View).End
         /\ rd.Row \in RowsOf(rd.View)
    /\ \A p \in 1..Len(pds) :
         /\ \A i, j \in 1..Len(pds[p].rowDataArr) :
               (i < j /\ pds[p].rowDataArr[i].id[1] = pds[p].rowDataArr[j].id[1])
                  => pds[p].rowDataArr[i].id[2] < pds[p].rowDataArr[j].id[2]
         /\ \A i, j \in 1..Len(Accepted(p)) :
               (i < j /\ Accepted(p)[i].id[1] = Accepted(p)[j].id[1])
                  => Accepted(p)[i].id[2] < Accepted(p)[j].id[2]

\* a step of the loop of ExportView makes one RowData of the row it reads,
\* with the view, start and end of the call's snapshot, and leaves one row
\* less to read; a call begins with the window of its snapshot and returns
\* only when no row is left
OneRowDataPerRow ==
    \A c \in Callers :
        /\ nextRd'[c] # nextRd[c] =>
              /\ callers[c].pc = "row"
              /\ nextRd'[c] = nextRd[c] + 1
              /\ callers'[c].left = callers[c].left - 1
              /\ \E rd \in rowDatas' :
                    /\ rd \notin rowDatas
                    /\ rowDatas' = rowDatas \cup {rd}
                    /\ rd.id = <<c, nextRd'[c]>>
                    /\ rd.View = callers[c].View
                    /\ rd.Start = callers[c].Start
                    /\ rd.End = callers[c].End
                    /\ callers'[c].pc = "add" => callers'[c].rd = rd
        /\ nextRd'[c] = nextRd[c] => \A rd \in rowDatas' : rd.id[1] = c => rd \in rowDatas
        /\ (callers[c].pc = "idle" /\ callers'[c].pc # "idle") =>
              /\ callers'[c].pc = "row"
              /\ callers'[c].left >= 1
              /\ callers'[c].Start = SnapshotOf(callers'[c].View).Start
              /\ callers'[c].End = SnapshotOf(callers'[c].View).End
        /\ (callers[c].pc # "idle" /\ callers'[c].pc # "idle") =>
              /\ callers'[c].View = callers[c].View
              /\ callers'[c].Start = callers[c].Start
              /\ callers'[c].End = callers[c].End
        /\ (callers[c].pc # "idle" /\ callers'[c].pc = "idle") => callers'[c].left = 0
        /\ (callers[c].pc = "add" /\ callers'[c] # callers[c]) =>
              \E p \in 1..Len(pds) :
                  pds'[p].rowDataArr = Append(pds[p].rowDataArr, callers[c].rd)

\* C30: ExportView makes exactly one RowData of each row of the snapshot,
\* with the snapshot's View, Start and End, one row after the other in the
\* order it reads them; and the rows of successive ExportView calls that a
\* projectData's bundler was passed, and those it accepted, are in the
\* order they came.
C30_OneRowDataPerRowInOrder == [][OneRowDataPerRow /\ RowDataInOrder']_vars

\* two ExportView calls, one after the other, of snapshots of view1 and
\* view2: the bundler of one project accepted a row of each, in that order,
\* each with the window of its snapshot
C30_Witness ==
    \E p \in 1..Len(pds) :
        /\ Len(Accepted(p)) = 2
        /\ Accepted(p)[1].id = <<"c1", 1>>
        /\ Accepted(p)[2].id = <<"c1", 2>>
        /\ Accepted(p)[1].View = view1
        /\ Accepted(p)[2].View = view2
        /\ Accepted(p)[1].End < Accepted(p)[2].Start
        /\ nextRd["c2"] = 0

\* --------------------------------------------------------------------- C31
\* the series makeReq builds from rd
SeriesOf(rd) ==
    [Type |-> rd.View.Name, Resource |-> makeResource(rd).resource,
     Point |-> newPoint(rd.View, rd.Row, rd.Start, rd.End)]

NotValid(rd) == ~Valid(rd)

\* what makeReq returns for the list an uploadRowData is about to pass it
NextReq(t) == makeReq(pds[uploads[t].pd], uploads[t].rds)

\* C31: makeReq on a non-empty row list returns (req, reqRds, remainingRds)
\* where reqRds is as long as the series list of req and the i-th series is
\* built from the i-th row of reqRds; req is nil exactly when reqRds is
\* empty; remainingRds is the suffix of the input after the last row
\* examined, and at least one row is examined.  The examined rows are those
\* put in reqRds, in input order, and those reported to onError, in input
\* order, each alone: with remainingRds they make up the input.
C31_MakeReqContract ==
    \A t \in 1..Len(uploads) :
        (uploads[t].pc = "run" /\ uploads[t].kind # "go") =>
            LET rds == uploads[t].rds
                r == NextReq(t)
                n == Len(rds) - Len(r.remainingRds)
                examined == SubSeq(rds, 1, n)
            IN  /\ Len(rds) > 0
                /\ Len(r.reqRds) = Len(r.req.TimeSeries)
                /\ \A i \in 1..Len(r.reqRds) : r.req.TimeSeries[i] = SeriesOf(r.reqRds[i])
                /\ r.req.nil <=> r.reqRds = <<>>
                /\ n >= 1
                /\ r.remainingRds = SubSeq(rds, n + 1, Len(rds))
                /\ r.reqRds = SelectSeq(examined, Valid)
                /\ [k \in 1..Len(r.errs) |-> r.errs[k].rds]
                     = [k \in 1..Len(SelectSeq(examined, NotValid)) |->
                            <<SelectSeq(examined, NotValid)[k]>>]
                /\ examined \o r.remainingRds = rds

\* uploadRowData has been round its loop once and calls makeReq on the rows
\* left: the call skips a failing row, fills a request to the limit and
\* leaves a row
C31_Witness ==
    \E t \in 1..Len(uploads) :
        /\ uploads[t].pc = "run"
        /\ uploads[t].kind = "call"
        /\ Len(uploads[t].rds) < Len(uploads[t].bundle)
        /\ ~NextReq(t).req.nil
        /\ Len(NextReq(t).reqRds) = MaxTimeSeriesPerUpload
        /\ Len(NextReq(t).errs) >= 1
        /\ Len(NextReq(t).remainingRds) >= 1

\* --------------------------------------------------------------------- C32
\* an iteration of the loop of uploadRowData, up to its RPC call or to the
\* next iteration, leaves fewer rows than it found; the return of the RPC
\* leaves the rows alone
RemainingShrinks ==
    \A t \in 1..Len(uploads) :
        /\ (uploads[t].pc = "run" /\ uploads'[t] # uploads[t]) =>
              /\ Len(uploads'[t].rds) < Len(uploads[t].rds)
              /\ uploads'[t].pc \in {"run", "rpc", "done"}
              /\ uploads'[t].pc = "done" => uploads'[t].rds = <<>>
              /\ uploads'[t].pc = "run" => /\ Len(uploads'[t].rds) > 0
                                           /\ uploads'[t].reqs = uploads[t].reqs
        /\ uploads[t].pc = "rpc" =>
              /\ uploads'[t].rds = uploads[t].rds
              /\ uploads'[t].pc \in {"rpc", "run", "done"}
        /\ uploads[t].pc = "done" => uploads'[t] = uploads[t]

\* C32: uploadRowData terminates for every finite batch when each client
\* call and callback returns: every makeReq call examines at least one row,
\* so the list of remaining rows is strictly shorter after every loop
\* iteration, those that issue no request included, and the call returns.
C32_UploadTerminates ==
    /\ [][RemainingShrinks]_vars
    /\ <>(\A t \in 1..Len(uploads) : Done(t))

\* uploadRowData has returned after an iteration that issued no request and
\* was not the last, and after two that issued one
C32_Witness ==
    \E t \in 1..Len(uploads) :
        LET u == uploads[t]
        IN  /\ Done(t)
            /\ MaxTimeSeriesPerUpload = 1
            /\ Len(u.bundle) >= 3
            /\ ~Valid(u.bundle[1])
            /\ Len(u.reqs) >= 2
            /\ Len(u.errs) >= 1

\* --------------------------------------------------------------------- C33
\* C33: for a bundle with V rows that convert and get a resource, placed
\* anywhere among failing rows, and MaxTimeSeriesPerUpload = M >= 1, an
\* uploadRowData that has finished has issued exactly ceil(V/M) requests;
\* every request but the last holds exactly M series and the last holds the
\* rest: a failing row takes no place in a request and makes no request
\* more or shorter.
C33_RequestsOfValidRows ==
    \A t \in 1..Len(uploads) :
        LET u == uploads[t]
            M == MaxTimeSeriesPerUpload
            V == Len(ValidRows(u.bundle))
            n == Len(u.reqs)
        IN  (Done(t) /\ M >= 1) =>
                /\ n = CeilDiv(V, M)
                /\ \A i \in 1..(n - 1) : Len(u.reqs[i].req.TimeSeries) = M
                /\ n >= 1 => Len(u.reqs[n].req.TimeSeries) = V - M * (n - 1)
                /\ Flatten(ReqRds(u)) = ValidRows(u.bundle)

\* uploadRowData has finished a bundle of three good rows with a failing
\* row between two of them, at the limit of two
C33_Witness ==
    \E t \in 1..Len(uploads) :
        LET u == uploads[t]
        IN  /\ Done(t)
            /\ MaxTimeSeriesPerUpload = 2
            /\ Len(ValidRows(u.bundle)) = 3
            /\ \E k \in 2..(Len(u.bundle) - 1) :
                    ~Valid(u.bundle[k]) /\ Valid(u.bundle[k - 1]) /\ Valid(u.bundle[k + 1])
            /\ Len(u.reqs) = 2
            /\ Len(u.reqs[1].req.TimeSeries) = 2
            /\ Len(u.reqs[2].req.TimeSeries) = 1

\* --------------------------------------------------------------------- C34
AggregationTypes ==
    {"AggTypeNone", "AggTypeCount", "AggTypeSum", "AggTypeDistribution", "AggTypeLastValue"}

\* the pairs of data type and measure type that have no value: no data, or
\* a sum or last value of a measure that is neither int64 nor float64
NoValue(v, row) ==
    \/ row.Data \notin {"CountData", "SumData", "DistributionData", "LastValueData"}
    \/ /\ row.Data \in {"SumData", "LastValueData"}
       /\ v.Measure \notin {"Int64Measure", "Float64Measure"}

\* C34: newPoint takes the shape of the interval from the aggregation type
\* of the view (end time alone for a last value, start and end otherwise)
\* and the value from the data type of the row and the measure type, the
\* one without regard to the other: the value is the same under every
\* aggregation type, and there is none only for a data and measure pair
\* that has none.  makeReq reports a row as inconsistent only then: a row
\* whose data type is not the one the aggregation produces (sum data under
\* a last-value view) gets a series in the request and no report.
C34_ShapeAndValueIndependent ==
    /\ call.fn = "newPoint" =>
          LET pt == call.point
          IN  /\ pt.StartTime.nil <=> call.v.Aggregation = "AggTypeLastValue"
              /\ ~pt.StartTime.nil => pt.StartTime = Timestamp(call.start)
              /\ pt.EndTime = Timestamp(call.end)
              /\ pt.Value.kind = "nil" <=> NoValue(call.v, call.row)
              /\ \A a \in AggregationTypes :
                    newPoint([call.v EXCEPT !.Aggregation = a], call.row,
                             call.start, call.end).Value = pt.Value
              /\ \A d \in {"SumData", "LastValueData"} :
                    call.row.Data \in {"SumData", "LastValueData"} =>
                        /\ newPoint(call.v, [call.row EXCEPT !.Data = d], call.start,
                                    call.end).StartTime = pt.StartTime
                        /\ newPoint(call.v, [call.row EXCEPT !.Data = d], call.start,
                                    call.end).EndTime = pt.EndTime
    /\ call.fn = "makeReq" =>
          LET rd == call.rd
              r == call.ret
          IN  IF NoValue(rd.View, rd.Row)
              THEN /\ r.req.nil
                   /\ r.reqRds = <<>>
                   /\ Len(r.errs) = 1
                   /\ r.errs[1].msg = "inconsistent data found in view"
                   /\ r.errs[1].rds = <<rd>>
              ELSE /\ ~r.req.nil
                   /\ r.reqRds = <<rd>>
                   /\ r.errs = <<>>
                   /\ Len(r.req.TimeSeries) = 1
                   /\ r.req.TimeSeries[1].Point.Value.kind # "nil"
                   /\ r.req.TimeSeries[1].Point.StartTime.nil
                         <=> rd.View.Aggregation = "AggTypeLastValue"

\* makeReq was given a row of sum data under a last-value view of an int64
\* measure: the row is in the request, as a point without start time, and
\* nothing is reported
C34_Witness ==
    /\ call.fn = "makeReq"
    /\ call.rd.Row.Data = "SumData"
    /\ call.rd.View.Aggregation = "AggTypeLastValue"
    /\ call.rd.View.Measure = "Int64Measure"
    /\ ~call.ret.req.nil
    /\ call.ret.reqRds = <<call.rd>>
    /\ call.ret.errs = <<>>
    /\ call.ret.req.TimeSeries[1].Point.StartTime.nil
    /\ call.ret.req.TimeSeries[1].Point.Value.kind = "Int64Value"

\* --------------------------------------------------------------------- C35
\* Close has been called and has not returned
InClose == closer.pc \in {"locked", "flushing", "unlocked"}

HeldRowDatas ==
    UNION {
        {callers[c].rd : c \in {d \in Callers : callers[d].pc = "add"}},
        UNION {Range(pds[p].bndler) \cup Range(pds[p].rowDataArr) : p \in 1..Len(pds)},
        UNION {Range(uploads[t].bundle) \cup Range(uploads[t].rds) \cup Range(uploads[t].reqRds) :
                 t \in 1..Len(uploads)},
        UNION {UNION {Range(uploads[t].reqs[i].rds) : i \in 1..Len(uploads[t].reqs)} :
                 t \in 1..Len(uploads)},
        UNION {UNION {Range(uploads[t].errs[k].rds) : k \in 1..Len(uploads[t].errs)} :
                 t \in 1..Len(uploads)},
        UNION {Range(errRds[k].rds) : k \in 1..Len(errRds)}}

\* every RowData held is one ExportView built, as it built it, and every
\* series of a request is the series of the row it stands for
RowDatasAsBuilt ==
    /\ \A a, b \in rowDatas : a.id = b.id => a = b
    /\ HeldRowDatas \subseteq rowDatas
    /\ \A t \in 1..Len(uploads) : \A i \in 1..Len(uploads[t].reqs) :
          LET q == uploads[t].reqs[i]
          IN  \A j \in 1..Len(q.rds) : q.req.TimeSeries[j] = SeriesOf(q.rds[j])

\* C36: the pipeline never modifies a RowData once ExportView has built
\* it: a RowData built stays as built, and the rows classified, buffered,
\* handed to uploadRowData, used for the series of a request or passed to
\* onError have the view, start, end and row they were built with.
C36_RowDataNeverModified == [][rowDatas \subseteq rowDatas' /\ RowDatasAsBuilt']_vars

\* a row that failed classification was reported; another went through a
\* bundler into a request that failed and was reported with it
C36_Witness ==
    /\ Len(errRds) >= 1
    /\ \E t \in 1..Len(uploads) :
          /\ Done(t)
          /\ uploads[t].kind # "go"
          /\ Len(uploads[t].reqs) >= 1
          /\ \E k \in 1..Len(uploads[t].errs) :
                /\ IsRpcErr(uploads[t].errs[k])
                /\ uploads[t].errs[k].rds = uploads[t].reqs[1].rds
                /\ errRds[1].rds[1] \in rowDatas
                /\ uploads[t].errs[k].rds[1] \in rowDatas

\* --------------------------------------------------------------------- C37
\* the places in the tag list of the tags with key k
TagsWithKey(tags, k) == {i \in 1..Len(tags) : tags[i].Key = k}

\* C37: getProjName gives as project the value of the first tag of the row
\* whose key is the project key, whether or not a default label has that
\* key; with no such tag, the value of the default label with that key;
\* and it fails only when there is neither.
C37_GetProjName ==
    call.fn = "getProjName" =>
        LET at == TagsWithKey(call.tags, call.projKey)
        IN  IF at # {}
            THEN /\ call.ret.ok
                 /\ call.ret.projName
                      = call.tags[CHOOSE i \in at : \A j \in at : i <= j].Value
            ELSE IF call.projKey \in DOMAIN opts.DefaultLabels
            THEN /\ call.ret.ok
                 /\ call.ret.projName = opts.DefaultLabels[call.projKey]
            ELSE ~call.ret.ok

\* getProjName was called on a row with two tags of the project key, of
\* different values, when a default label has that key too: it gave the
\* value of the first tag
C37_Witness ==
    /\ call.fn = "getProjName"
    /\ Len(call.tags) = 2
    /\ call.tags[1].Key = call.projKey
    /\ call.tags[2].Key = call.projKey
    /\ call.tags[1].Value # call.tags[2].Value
    /\ call.projKey \in DOMAIN opts.DefaultLabels
    /\ call.ret.ok
    /\ call.ret.projName = call.tags[1].Value
    /\ call.ret.projName # opts.DefaultLabels[call.projKey]

====
